---- MODULE Spec2Model ----
(***************************************************************************)
(* Keyboard Maestro MCP server: the macro-definition edit and verification *)
(* layer (src/src/tools/macros.ts), its variable tools, the result         *)
(* decoders, the script builder's escaping and the CallTool dispatcher     *)
(* (src/src/index.ts).                                                     *)
(*                                                                         *)
(* Several specifications share this module; each one drives its own group *)
(* of variables and leaves the other groups at their initial value:        *)
(*   Spec        payload-staging calls running concurrently against the    *)
(*               engine (addAction, addTrigger, setActionXml,              *)
(*               setTriggerXml)                                            *)
(*   SpecEdit    the 1-based action index space (add, delete, move, list)  *)
(*   SpecHandler the CallTool request handler and the tool catalog         *)
(*   SpecScript  the script builder's string interpolation                 *)
(*   SpecDecode  the list decoders                                         *)
(***************************************************************************)
EXTENDS Integers, Sequences, FiniteSets, TLC

VARIABLES
  now,          \* the last value Date.now() returned, in milliseconds
  files,        \* os.tmpdir(): temp path -> payload stored there (NoFile if none)
  calls,        \* the payload-staging calls, one record per call
  actions,      \* the engine's count of actions of the target macro
  triggers,     \* the engine's count of triggers of the target macro
  editActions,  \* SpecEdit: the action sequence of the macro being edited
  lastOp,       \* SpecEdit: the last operation, its arguments and its outcome
  request,      \* SpecHandler: the CallTool request being handled
  response,     \* SpecHandler: the response the handler returned
  site,         \* SpecScript: the interpolation site the script was built for
  userStr,      \* SpecScript: the user string interpolated
  script,       \* SpecScript: the string literal as it stands in the script
  decoder,      \* SpecDecode: the list operation that decoded
  records,      \* SpecDecode: the records the engine enumerated
  raw,          \* SpecDecode: the stdout of the list script's osascript run
  decoded,      \* SpecDecode: the records the operation returned
  kmVariable,   \* SpecVariable: the engine's value of the variable ("" if absent)
  varOp,        \* SpecVariable: the last variable operation and its outcome
  logLine,      \* SpecParse: the line handed to parseLogLine
  entry,        \* SpecParse: what parseLogLine returned (<<>> for null)
  engineLog,    \* SpecSummary, SpecLog: the text of the Engine log file
  editorLog,    \* SpecLog: the text of the Editor log file
  logOp,        \* SpecSummary, SpecLog: the last log read and what it returned
  xmlIn,        \* SpecWrap: the payload handed to writeTempXml
  written,      \* SpecWrap: the text written to the temp file
  rewritten,    \* SpecWrap: the text written when that text is the payload
  kmMacros,     \* SpecOps: the macros of the engine, each with its actions
  kmTriggers,   \* SpecOps: the engine's count of triggers of the first macro
  tempLeft,     \* SpecOps: whether the last operation left its temp file
  opDone        \* SpecOps: the operation the caller ran and its outcome

mvars == <<now, files, calls, actions, triggers>>
evars == <<editActions, lastOp>>
hvars == <<request, response>>
svars == <<site, userStr, script>>
dvars == <<decoder, records, raw, decoded>>
vvars == <<kmVariable, varOp>>
pvars == <<logLine, entry>>
lvars == <<engineLog, editorLog, logOp>>
wvars == <<xmlIn, written, rewritten>>
ovars == <<kmMacros, kmTriggers, tempLeft, opDone>>
vars == <<now, files, calls, actions, triggers, editActions, lastOp,
          request, response, site, userStr, script, decoder, records, raw,
          decoded, kmVariable, varOp, logLine, entry, engineLog, editorLog,
          logOp, xmlIn, written, rewritten, kmMacros, kmTriggers, tempLeft,
          opDone>>

(***************************************************************************)
(* Bounds                                                                  *)
(***************************************************************************)
MaxCalls == 2
MaxClock == 1
MaxActions == 2
MaxEditActions == 4
MaxStrLen == 2
MaxFieldLen == 1
MaxRecords == 2
MaxLogLines == 5
MaxTailLines == 2
MaxEditorLines == 1
BacklogLines == 9
MaxRecentLines == 3
MaxFragments == 2
MaxMacros == 2
MaxMacroActions == 1
MaxPieces == 3
MaxParts == 2

CallIds == 1..MaxCalls
Paths == 0..MaxClock
NoOwner == 0
NoPath == -1
NoCount == -1
NoFile == [owner |-> NoOwner, valid |-> FALSE]

(***************************************************************************)
(* Payload exchange: writeTempXml / cleanupTempFile                        *)
(***************************************************************************)
StagingOps == {"addAction", "addTrigger", "setActionXml", "setTriggerXml"}

\* path.join(os.tmpdir(), `km_action_${Date.now()}.plist`): the path is a
\* function of the millisecond clock alone.
tempPathAt(t) == t

\* fs.writeFileSync(tempPath, ...): creates or overwrites the file.
writeTempXml(fs, t, payload) == [fs EXCEPT ![tempPathAt(t)] = payload]

cleanupTempFile_noop(fs, p) == fs

\* fs.unlinkSync(filePath) inside try/catch: removes the file if it is there,
\* and the ENOENT of a file already gone is swallowed.
cleanupTempFile(fs, p) == [fs EXCEPT ![p] = NoFile]

(***************************************************************************)
(* Results and error messages                                              *)
(***************************************************************************)
NoResult == [kind |-> "none", msg |-> <<>>]
Text(parts) == [kind |-> "text", msg |-> parts]
Failure(parts) == [kind |-> "error", msg |-> parts]

NotCreatedMsg == "Action was not created - XML may be invalid or malformed"

\* runAppleScriptFile: throw new Error(`AppleScript error: ${error.message}`)
AppleScriptError == <<"AppleScript error: ", "<osascript diagnostic>">>

FailedPrefix(op) ==
  CASE op = "addAction" -> "Failed to add action: "
    [] op = "addTrigger" -> "Failed to add trigger: "
    [] op = "setActionXml" -> "Failed to set action XML: "
    [] op = "setTriggerXml" -> "Failed to set trigger XML: "
    [] op = "getMacro" -> "Failed to get macro: "
    [] op = "createMacro" -> "Failed to create macro: "

SuccessText(op) ==
  CASE op = "addAction" -> "Action added to macro"
    [] op = "addTrigger" -> "Trigger added to macro"
    [] op = "setActionXml" -> "Action updated successfully"
    [] op = "setTriggerXml" -> "Trigger updated successfully"
    [] op = "createMacro" -> "Macro created successfully with ID"

\* catch (error) { throw new Error(`Failed to ...: ${error.message}`) }
Rewrap(op, inner) == Failure(<<FailedPrefix(op)>> \o inner)

NotApplied_lt(beforeCount, afterCount) == afterCount < beforeCount

\* if (afterCount <= beforeCount) throw new Error('Action was not created ...')
NotApplied(beforeCount, afterCount) == afterCount <= beforeCount

(***************************************************************************)
(* Spec: payload-staging calls                                             *)
(***************************************************************************)
IdleCall ==
  [op |-> "none", pc |-> "idle", tempPath |-> NoPath, staged |-> FALSE,
   beforeCount |-> NoCount, made |-> FALSE, releases |-> 0,
   result |-> NoResult]

\* A call that returns or throws leaves the function: its locals are gone,
\* what remains is the outcome handed to the caller.
Return(call, result) ==
  [call EXCEPT !.pc = "done", !.tempPath = NoPath, !.beforeCount = NoCount,
               !.made = FALSE, !.releases = @ + 1, !.result = result]

\* The engine state these operations observe is "count of actions of
\* theMacro" (and the trigger count): actions and triggers hold the counts.
MInit ==
  /\ now = 0
  /\ files = [p \in Paths |-> NoFile]
  /\ calls = [c \in CallIds |-> IdleCall]
  /\ actions = 0
  /\ triggers = 0

\* Calls are numbered in the order in which they arrive.
NextToArrive(c) ==
  /\ calls[c].pc = "idle"
  /\ \A d \in CallIds : d < c => calls[d].pc # "idle"

\* The synchronous head of addAction / addTrigger / setActionXml /
\* setTriggerXml: writeTempXml(xml) runs before the try block, then the first
\* osascript is started and the call suspends on its await.
\* t is the value Date.now() returns: the millisecond of the previous reading
\* or a later one (time is counted from the first call, and only whether two
\* readings are equal shows in the file names, so "later" is the next value).
\* valid tells whether the markup passed in is well-formed for the engine.
Start(c, op, valid, t) ==
  /\ NextToArrive(c)
  /\ t \in (IF c = 1 THEN {now} ELSE {now, now + 1})
  /\ now' = t
  /\ files' = writeTempXml(files, t, [owner |-> c, valid |-> valid])
  /\ calls' = [calls EXCEPT ![c] =
        [@ EXCEPT !.op = op,
                  !.tempPath = tempPathAt(t), !.staged = TRUE,
                  !.pc = IF op = "addAction" THEN "count1" ELSE "script"]]
  /\ UNCHANGED <<actions, triggers>>

\* fs.writeFileSync throws (scratch directory unwritable): the exception
\* leaves the function before the try block is entered.
StartFails(c, op) ==
  /\ NextToArrive(c)
  /\ calls' = [calls EXCEPT ![c] =
        [@ EXCEPT !.op = op, !.pc = "done",
                  !.result = Failure(<<"<writeFileSync error>">>)]]
  /\ UNCHANGED <<now, files, actions, triggers>>

\* catch + finally of a staging call: re-wrap the error, release the file.
Throw(c, inner) ==
  /\ files' = cleanupTempFile(files, calls[c].tempPath)
  /\ calls' = [calls EXCEPT ![c] = Return(@, Rewrap(calls[c].op, inner))]

\* addAction: the count script runs before the add script.
CountBefore(c, ok) ==
  /\ calls[c].pc = "count1"
  /\ IF ok
       THEN /\ calls' = [calls EXCEPT ![c] =
                  [@ EXCEPT !.beforeCount = actions, !.pc = "script"]]
            /\ UNCHANGED files
       ELSE Throw(c, AppleScriptError)
  /\ UNCHANGED <<now, actions, triggers>>

\* "make new action/trigger with properties {xml:xmlContent}": valid markup
\* makes the new element; malformed markup is silently dropped.
EngineMake(count, payload) ==
  IF payload.valid THEN count + 1 ELSE count

\* The mutating script: read POSIX file tempPath, then make / set xml.
\* made records, while addAction waits for its second count, whether its own
\* make created an action (a fact of the engine the code does not see).
\* ok = FALSE is any osascript failure (file gone, macro or index not found,
\* engine rejecting the markup with an error). setActionXml / setTriggerXml
\* can only succeed for an actionIndex / triggerIndex the macro has.
RunScript(c, ok) ==
  LET me == calls[c]
      payload == files[me.tempPath]
      makes == ok /\ me.op \in {"addAction", "addTrigger"} /\ payload.valid
  IN
  /\ me.pc = "script"
  /\ ok => payload # NoFile
  /\ ok /\ me.op = "setActionXml" => \E actionIndex \in 1..MaxActions : actionIndex <= actions
  /\ ok /\ me.op = "setTriggerXml" => \E triggerIndex \in 1..MaxActions : triggerIndex <= triggers
  /\ makes /\ me.op = "addAction" => actions < MaxActions
  /\ makes /\ me.op = "addTrigger" => triggers < MaxActions
  /\ IF ok
       THEN /\ actions' = IF me.op = "addAction" THEN EngineMake(actions, payload)
                          ELSE actions
            /\ triggers' = IF me.op = "addTrigger" THEN EngineMake(triggers, payload)
                           ELSE triggers
            /\ IF me.op = "addAction"
                 THEN /\ calls' = [calls EXCEPT ![c] =
                            [@ EXCEPT !.pc = "count2", !.made = makes]]
                      /\ UNCHANGED files
                 ELSE /\ files' = cleanupTempFile(files, me.tempPath)
                      /\ calls' = [calls EXCEPT ![c] =
                            Return(@, Text(<<SuccessText(me.op)>>))]
       ELSE /\ Throw(c, AppleScriptError)
            /\ UNCHANGED <<actions, triggers>>
  /\ UNCHANGED <<now>>

\* addAction: the count script runs again, the counts are compared, and the
\* finally block releases the staged file.
CountAfter(c, ok) ==
  LET me == calls[c] IN
  /\ me.pc = "count2"
  /\ files' = cleanupTempFile(files, me.tempPath)
  /\ calls' = [calls EXCEPT ![c] =
        Return(@, IF ~ok THEN Rewrap(me.op, AppleScriptError)
                  ELSE IF NotApplied(me.beforeCount, actions)
                    THEN Rewrap(me.op, <<NotCreatedMsg>>)
                    ELSE Text(<<SuccessText(me.op)>>))]
  /\ UNCHANGED <<now, actions, triggers>>

\* The Keyboard Maestro editor (or any other client of the engine) edits the
\* same macro while calls are in flight.
ExternalAdd ==
  /\ actions < MaxActions
  /\ actions' = actions + 1
  /\ UNCHANGED <<now, files, calls, triggers>>

ExternalDelete ==
  /\ actions > 0
  /\ actions' = actions - 1
  /\ UNCHANGED <<now, files, calls, triggers>>

MNext ==
  \/ \E c \in CallIds, op \in StagingOps, valid \in BOOLEAN, t \in Paths :
       Start(c, op, valid, t)
  \/ \E c \in CallIds, op \in StagingOps : StartFails(c, op)
  \/ \E c \in CallIds, ok \in BOOLEAN : CountBefore(c, ok)
  \/ \E c \in CallIds, ok \in BOOLEAN : RunScript(c, ok)
  \/ \E c \in CallIds, ok \in BOOLEAN : CountAfter(c, ok)
  \/ ExternalAdd
  \/ ExternalDelete

(***************************************************************************)
(* SpecHandler: the tool catalog and the CallTool request handler          *)
(***************************************************************************)
\* TOOLS[*].inputSchema.properties
ToolProps ==
  [km_get_errors |-> {"hours"},
   km_get_log |-> {"lines", "errorsOnly", "macroFilter"},
   km_list_macros |-> {},
   km_get_macro |-> {"identifier"},
   km_get_macro_xml |-> {"identifier"},
   km_search_macros |-> {"query"},
   km_create_macro |-> {"name", "actionXml", "groupName"},
   km_clone_macro |-> {"identifier", "newName"},
   km_add_action |-> {"macroIdentifier", "actionXml"},
   km_delete_macro |-> {"identifier"},
   km_enable_macro |-> {"identifier", "enabled"},
   km_run_macro |-> {"identifier", "parameter"},
   km_move_macro |-> {"macroIdentifier", "groupIdentifier"},
   km_manage_variable |-> {"action", "name", "value"},
   km_get_action_xml |-> {"macroIdentifier", "actionIndex"},
   km_set_action_xml |-> {"macroIdentifier", "actionIndex", "xml"},
   km_search_replace_action |-> {"macroIdentifier", "actionIndex", "searchText", "replaceText"},
   km_delete_action |-> {"macroIdentifier", "actionIndex"},
   km_add_trigger |-> {"macroIdentifier", "triggerXml"},
   km_delete_trigger |-> {"macroIdentifier", "triggerIndex"},
   km_list_actions |-> {"macroIdentifier"},
   km_move_action |-> {"macroIdentifier", "actionIndex", "newIndex"},
   km_manage_group |-> {"action", "identifier", "enabled"},
   km_get_trigger_xml |-> {"macroIdentifier", "triggerIndex"},
   km_set_trigger_xml |-> {"macroIdentifier", "triggerIndex", "xml"},
   km_add_notification |-> {"macroIdentifier", "title", "message", "subtitle"},
   km_add_pause |-> {"macroIdentifier", "seconds"},
   km_add_set_variable |-> {"macroIdentifier", "variable", "value"},
   km_add_calculation |-> {"macroIdentifier", "variable", "expression"},
   km_add_display_text |-> {"macroIdentifier", "title", "text"},
   km_add_if_variable_contains |-> {"macroIdentifier", "variable", "containsValue", "thenActionsXml", "elseActionsXml"},
   km_add_if_calculation |-> {"macroIdentifier", "calculation", "thenActionsXml", "elseActionsXml"},
   km_add_execute_macro |-> {"macroIdentifier", "macroToExecute", "parameter"},
   km_add_shell_script |-> {"macroIdentifier", "script", "saveToVariable"}]

\* TOOLS[*].inputSchema.required
ToolRequired ==
  [km_get_errors |-> {},
   km_get_log |-> {},
   km_list_macros |-> {},
   km_get_macro |-> {"identifier"},
   km_get_macro_xml |-> {"identifier"},
   km_search_macros |-> {"query"},
   km_create_macro |-> {"name"},
   km_clone_macro |-> {"identifier"},
   km_add_action |-> {"macroIdentifier", "actionXml"},
   km_delete_macro |-> {"identifier"},
   km_enable_macro |-> {"identifier", "enabled"},
   km_run_macro |-> {"identifier"},
   km_move_macro |-> {"macroIdentifier", "groupIdentifier"},
   km_manage_variable |-> {"action", "name"},
   km_get_action_xml |-> {"macroIdentifier", "actionIndex"},
   km_set_action_xml |-> {"macroIdentifier", "actionIndex", "xml"},
   km_search_replace_action |-> {"macroIdentifier", "actionIndex", "searchText", "replaceText"},
   km_delete_action |-> {"macroIdentifier", "actionIndex"},
   km_add_trigger |-> {"macroIdentifier", "triggerXml"},
   km_delete_trigger |-> {"macroIdentifier", "triggerIndex"},
   km_list_actions |-> {"macroIdentifier"},
   km_move_action |-> {"macroIdentifier", "actionIndex", "newIndex"},
   km_manage_group |-> {"action"},
   km_get_trigger_xml |-> {"macroIdentifier", "triggerIndex"},
   km_set_trigger_xml |-> {"macroIdentifier", "triggerIndex", "xml"},
   km_add_notification |-> {"macroIdentifier", "title", "message"},
   km_add_pause |-> {"macroIdentifier", "seconds"},
   km_add_set_variable |-> {"macroIdentifier", "variable", "value"},
   km_add_calculation |-> {"macroIdentifier", "variable", "expression"},
   km_add_display_text |-> {"macroIdentifier", "title", "text"},
   km_add_if_variable_contains |-> {"macroIdentifier", "variable", "containsValue"},
   km_add_if_calculation |-> {"macroIdentifier", "calculation"},
   km_add_execute_macro |-> {"macroIdentifier", "macroToExecute"},
   km_add_shell_script |-> {"macroIdentifier", "script"}]

\* The guards each case of the handler's switch runs before it calls the
\* operation, in order: "falsy" is  if (!x) throw ...,  "undefined" is
\* if (x === undefined) throw ...
ToolChecks ==
  [km_get_errors |-> <<>>,
   km_get_log |-> <<>>,
   km_list_macros |-> <<>>,
   km_get_macro |-> <<<<"identifier", "falsy">>>>,
   km_get_macro_xml |-> <<<<"identifier", "falsy">>>>,
   km_search_macros |-> <<<<"query", "falsy">>>>,
   km_create_macro |-> <<<<"name", "falsy">>>>,
   km_clone_macro |-> <<<<"identifier", "falsy">>>>,
   km_add_action |-> <<<<"macroIdentifier", "falsy">>, <<"actionXml", "falsy">>>>,
   km_delete_macro |-> <<<<"identifier", "falsy">>>>,
   km_enable_macro |-> <<<<"identifier", "falsy">>, <<"enabled", "undefined">>>>,
   km_run_macro |-> <<<<"identifier", "falsy">>>>,
   km_move_macro |-> <<<<"macroIdentifier", "falsy">>, <<"groupIdentifier", "falsy">>>>,
   km_manage_variable |-> <<<<"name", "falsy">>>>,
   km_get_action_xml |-> <<<<"macroIdentifier", "falsy">>, <<"actionIndex", "falsy">>>>,
   km_set_action_xml |-> <<<<"macroIdentifier", "falsy">>, <<"actionIndex", "falsy">>, <<"xml", "falsy">>>>,
   km_search_replace_action |-> <<<<"macroIdentifier", "falsy">>, <<"actionIndex", "falsy">>, <<"searchText", "falsy">>, <<"replaceText", "undefined">>>>,
   km_delete_action |-> <<<<"macroIdentifier", "falsy">>, <<"actionIndex", "falsy">>>>,
   km_add_trigger |-> <<<<"macroIdentifier", "falsy">>, <<"triggerXml", "falsy">>>>,
   km_delete_trigger |-> <<<<"macroIdentifier", "falsy">>, <<"triggerIndex", "falsy">>>>,
   km_list_actions |-> <<<<"macroIdentifier", "falsy">>>>,
   km_move_action |-> <<>>,
   km_manage_group |-> <<>>,
   km_get_trigger_xml |-> <<<<"macroIdentifier", "falsy">>, <<"triggerIndex", "falsy">>>>,
   km_set_trigger_xml |-> <<<<"macroIdentifier", "falsy">>, <<"triggerIndex", "falsy">>, <<"xml", "falsy">>>>,
   km_add_notification |-> <<<<"macroIdentifier", "falsy">>, <<"title", "falsy">>, <<"message", "falsy">>>>,
   km_add_pause |-> <<<<"macroIdentifier", "falsy">>, <<"seconds", "undefined">>>>,
   km_add_set_variable |-> <<<<"macroIdentifier", "falsy">>, <<"variable", "falsy">>, <<"value", "undefined">>>>,
   km_add_calculation |-> <<<<"macroIdentifier", "falsy">>, <<"variable", "falsy">>, <<"expression", "falsy">>>>,
   km_add_display_text |-> <<<<"macroIdentifier", "falsy">>, <<"title", "falsy">>, <<"text", "falsy">>>>,
   km_add_if_variable_contains |-> <<<<"macroIdentifier", "falsy">>, <<"variable", "falsy">>, <<"containsValue", "falsy">>>>,
   km_add_if_calculation |-> <<<<"macroIdentifier", "falsy">>, <<"calculation", "falsy">>>>,
   km_add_execute_macro |-> <<<<"macroIdentifier", "falsy">>, <<"macroToExecute", "falsy">>>>,
   km_add_shell_script |-> <<<<"macroIdentifier", "falsy">>, <<"script", "falsy">>>>]

Tools == DOMAIN ToolProps
UnknownTool == "km_no_such_tool"
ManageTools == {"km_manage_variable", "km_manage_group"}
\* km_get_errors and km_get_log read the log file; they start no osascript.
LogTools == {"km_get_errors", "km_get_log"}
\* Tools whose operation writes the temp file before its first osascript.
StagingTools ==
  {"km_add_action", "km_add_trigger", "km_set_action_xml", "km_set_trigger_xml",
   "km_add_notification", "km_add_pause", "km_add_set_variable",
   "km_add_calculation", "km_add_display_text", "km_add_if_variable_contains",
   "km_add_if_calculation", "km_add_shell_script"}

\* An argument is left out, present but falsy in JavaScript ('' / 0 / false),
\* or present and truthy; the action argument carries its string.
PresenceVals == {"absent", "falsy", "truthy"}
ActionVals == {"absent", "get", "set", "delete", "list", "create", "toggle", "bogus"}
ArgVals(p) == IF p = "action" THEN ActionVals ELSE PresenceVals

ArgsOf(name) ==
  IF name \in Tools
    THEN {a \in [ToolProps[name] ->
                   IF "action" \in ToolProps[name]
                     THEN PresenceVals \cup ActionVals ELSE PresenceVals] :
            \A p \in ToolProps[name] : a[p] \in ArgVals(p)}
    ELSE {<<>>}

\* The inner switch (action) of km_manage_variable and km_manage_group.
SubActions(name) ==
  IF name = "km_manage_variable" THEN {"get", "set", "delete"}
  ELSE {"list", "create", "delete", "toggle"}

SubChecks(name, action) ==
  IF name = "km_manage_variable"
    THEN IF action = "set" THEN <<<<"value", "undefined">>>> ELSE <<>>
    ELSE CASE action = "list" -> <<>>
           [] action = "create" -> <<<<"identifier", "falsy">>>>
           [] action = "delete" -> <<<<"identifier", "falsy">>>>
           [] action = "toggle" -> <<<<"identifier", "falsy">>, <<"enabled", "undefined">>>>

CheckFails(args, chk) ==
  IF chk[2] = "falsy" THEN args[chk[1]] \in {"absent", "falsy"}
  ELSE args[chk[1]] = "absent"

\* The parameter named by the first guard that throws, "none" if none does.
FirstFailure(args, checks) ==
  LET failing == {k \in 1..Len(checks) : CheckFails(args, checks[k])} IN
  IF failing = {} THEN "none"
  ELSE checks[CHOOSE k \in failing : \A m \in failing : k <= m][1]

Throws(msg, osa) == [thrown |-> TRUE, msg |-> msg, osascript |-> osa]
Returns(txt, osa) == [thrown |-> FALSE, msg |-> txt, osascript |-> osa]

\* The call of the operation itself (await getMacro(...), await addAction(...)):
\* it returns its text or throws its re-wrapped error. "throwsEarly" is a
\* failure before the first osascript (writeFileSync in writeTempXml).
Operation(name, outcome) ==
  LET osa == name \notin LogTools /\ outcome # "throwsEarly" IN
  IF outcome = "returns" THEN Returns(<<"<result of ", name, ">">>, osa)
  ELSE Throws(<<"<error of ", name, ">">>, osa)

\* The body of the try block: switch (name) { ... }
Dispatch(name, args, noArgs, outcome) ==
  IF name \notin Tools THEN Throws(<<"Unknown tool: ", name>>, FALSE)
  ELSE IF name = "km_move_action" /\ noArgs
    THEN Throws(<<"<TypeError: cannot destructure undefined>">>, FALSE)
  ELSE LET f == FirstFailure(args, ToolChecks[name]) IN
    IF f # "none" THEN Throws(<<f, " is required">>, FALSE)
    ELSE IF name \in ManageTools
      THEN IF args["action"] \notin SubActions(name)
             THEN Throws(<<"Unknown action: ", args["action"]>>, FALSE)
             ELSE LET g == FirstFailure(args, SubChecks(name, args["action"])) IN
                  IF g # "none" THEN Throws(<<g, " is required">>, FALSE)
                  ELSE Operation(name, outcome)
      ELSE Operation(name, outcome)

Catch_rethrow(completion) ==
  [kind |-> "fault", isError |-> TRUE, text |-> completion.msg,
   osascript |-> completion.osascript]

\* catch (error) { return { content: [{ type: 'text', text: `Error: ...` }],
\*                          isError: true } }
Catch(completion) ==
  [kind |-> "error", isError |-> TRUE, text |-> <<"Error: ">> \o completion.msg,
   osascript |-> completion.osascript]

CallToolHandler(name, args, noArgs, outcome) ==
  LET completion == Dispatch(name, args, noArgs, outcome) IN
  IF completion.thrown THEN Catch(completion)
  ELSE [kind |-> "text", isError |-> FALSE, text |-> completion.msg,
        osascript |-> completion.osascript]

\* One request: with no arguments object every args?.x reads undefined.
CallTool(name, args, noArgs, outcome) ==
  /\ noArgs => \A p \in DOMAIN args : args[p] = "absent"
  /\ outcome = "throwsEarly" => name \in StagingTools
  /\ request' = [name |-> name, args |-> args, noArgs |-> noArgs]
  /\ response' = CallToolHandler(name, args, noArgs, outcome)

HNext ==
  \E name \in Tools \cup {UnknownTool} :
    \E args \in ArgsOf(name), noArgs \in BOOLEAN,
       outcome \in {"returns", "throws", "throwsEarly"} :
      CallTool(name, args, noArgs, outcome)


(***************************************************************************)
(* SpecScript: string parameters interpolated into the control script      *)
(***************************************************************************)
\* Text is a sequence of one-character strings.
Quote == "\""
Backslash == "\\"
Chars == {"a", Quote, Backslash}

RECURSIVE StringsUpTo(_)
StringsUpTo(n) ==
  IF n = 0 THEN {<<>>}
  ELSE LET shorter == StringsUpTo(n - 1) IN
       shorter \cup {Append(t, ch) : t \in shorter, ch \in Chars}

UserStrings == StringsUpTo(MaxStrLen)

\* str.replace(/c/g, r): every occurrence of the character c becomes r.
RECURSIVE ReplaceAll(_, _, _)
ReplaceAll(str, c, r) ==
  IF str = <<>> THEN <<>>
  ELSE (IF Head(str) = c THEN r ELSE <<Head(str)>>) \o ReplaceAll(Tail(str), c, r)

\* .replace(/"/g, '\\"')
EscapeQuotes(str) == ReplaceAll(str, Quote, <<Backslash, Quote>>)
\* .replace(/\\/g, '\\\\')
EscapeBackslashes(str) == ReplaceAll(str, Backslash, <<Backslash, Backslash>>)

\* Every "${...}" of a string parameter in a generated script, with what the
\* operation does to the parameter before it interpolates it:
\*   none   the parameter as given
\*   quote  .replace(/"/g, '\\"')
\*   both   .replace(/\\/g, '\\\\').replace(/"/g, '\\"')
Sites ==
  {[op |-> "searchMacros", param |-> "query", escape |-> "quote"],
   [op |-> "getMacro", param |-> "identifier", escape |-> "none"],
   [op |-> "getMacroXml", param |-> "identifier", escape |-> "none"],
   [op |-> "createMacro", param |-> "name", escape |-> "quote"],
   [op |-> "createMacro", param |-> "groupName", escape |-> "quote"],
   [op |-> "duplicateMacro", param |-> "identifier", escape |-> "none"],
   [op |-> "duplicateMacro", param |-> "newName", escape |-> "quote"],
   [op |-> "addAction", param |-> "macroIdentifier", escape |-> "none"],
   [op |-> "moveMacroToGroup", param |-> "macroIdentifier", escape |-> "quote"],
   [op |-> "moveMacroToGroup", param |-> "groupIdentifier", escape |-> "quote"],
   [op |-> "addTrigger", param |-> "macroIdentifier", escape |-> "none"],
   [op |-> "deleteTrigger", param |-> "macroIdentifier", escape |-> "none"],
   [op |-> "deleteMacro", param |-> "identifier", escape |-> "none"],
   [op |-> "setMacroEnabled", param |-> "identifier", escape |-> "none"],
   [op |-> "createGroup", param |-> "name", escape |-> "quote"],
   [op |-> "deleteGroup", param |-> "identifier", escape |-> "none"],
   [op |-> "toggleGroup", param |-> "identifier", escape |-> "none"],
   [op |-> "executeMacro", param |-> "identifier", escape |-> "none"],
   [op |-> "executeMacro", param |-> "parameter", escape |-> "none"],
   [op |-> "getActionXml", param |-> "macroIdentifier", escape |-> "none"],
   [op |-> "setActionXml", param |-> "macroIdentifier", escape |-> "none"],
   [op |-> "deleteAction", param |-> "macroIdentifier", escape |-> "none"],
   [op |-> "searchReplaceInAction", param |-> "macroIdentifier", escape |-> "none"],
   [op |-> "searchReplaceInAction", param |-> "searchText", escape |-> "both"],
   [op |-> "searchReplaceInAction", param |-> "replaceText", escape |-> "both"],
   [op |-> "listActions", param |-> "macroIdentifier", escape |-> "none"],
   [op |-> "moveAction", param |-> "macroIdentifier", escape |-> "none"],
   [op |-> "getTriggerXml", param |-> "macroIdentifier", escape |-> "none"],
   [op |-> "setTriggerXml", param |-> "macroIdentifier", escape |-> "none"],
   [op |-> "getVariable", param |-> "name", escape |-> "none"],
   [op |-> "setVariable", param |-> "name", escape |-> "none"],
   [op |-> "setVariable", param |-> "value", escape |-> "quote"],
   [op |-> "deleteVariable", param |-> "name", escape |-> "none"]}

Escape(kind, str) ==
  CASE kind = "none" -> str
    [] kind = "quote" -> EscapeQuotes(str)
    [] kind = "both" -> EscapeQuotes(EscapeBackslashes(str))

\* The script text that follows the interpolated literal.
RestOfScript == <<" ", "o", "r", " ", Quote, "x", Quote>>

\* `... "${escaped}" ...`: the builder's literal opens at position 1 and is
\* meant to close at position Len(escaped) + 2.
BuildLiteral(kind, str) == <<Quote>> \o Escape(kind, str) \o <<Quote>> \o RestOfScript
IntendedEnd(kind, str) == Len(Escape(kind, str)) + 2

\* How the script compiler reads a string literal from position pos on: a
\* backslash takes the next character with it (\" and \\ are the escapes of
\* these characters), an unescaped quote closes the literal.
\* closedAt = 0: the text ran out before the literal closed.
RECURSIVE ScanLiteral(_, _, _)
ScanLiteral(text, pos, acc) ==
  IF pos > Len(text) THEN [closedAt |-> 0, value |-> acc, valid |-> FALSE]
  ELSE IF text[pos] = Quote THEN [closedAt |-> pos, value |-> acc, valid |-> TRUE]
  ELSE IF text[pos] = Backslash
    THEN IF pos + 1 > Len(text) THEN [closedAt |-> 0, value |-> acc, valid |-> FALSE]
         ELSE IF text[pos + 1] \in {Quote, Backslash}
           THEN ScanLiteral(text, pos + 2, Append(acc, text[pos + 1]))
           ELSE [closedAt |-> 0, value |-> acc, valid |-> FALSE]
  ELSE ScanLiteral(text, pos + 1, Append(acc, text[pos]))

BuildScript(st, str) ==
  /\ site' = st
  /\ userStr' = str
  /\ script' = BuildLiteral(st.escape, str)

SNext == \E st \in Sites, str \in UserStrings : BuildScript(st, str)


(***************************************************************************)
(* SpecDecode: the list scripts' text encoding and the list decoders       *)
(***************************************************************************)
FieldSep == <<"|", "|", "|">>
RecordSep == <<";", ";", ";">>
Space == " "
Newline == "\n"
Tab == "\t"
\* The characters String.prototype.trim() strips, as far as they occur here.
Whitespace == {Space, Newline, Tab}
NameChars == {"a", Space, "|"}
\* undefined: a value that is no string (every string is a sequence of
\* one-character strings).
Undefined == <<"undefined">>
\* NaN: a value that is no index (parseInt, with no sign in its input, yields
\* no negative number).
NaN == -1
Digits == <<"1", "2", "3", "4", "5", "6", "7", "8", "9">>
TrueText == <<"t", "r", "u", "e">>
FalseText == <<"f", "a", "l", "s", "e">>

RECURSIVE NamesUpTo(_)
NamesUpTo(n) ==
  IF n = 0 THEN {<<>>}
  ELSE LET shorter == NamesUpTo(n - 1) IN
       shorter \cup {Append(t, ch) : t \in shorter, ch \in NameChars}

Names == NamesUpTo(MaxFieldLen)

\* The engine assigns the uid; it is a UUID, free of blanks and delimiters.
UidAt(k) == <<"u", Digits[k]>>

StartsWith(str, tok) ==
  Len(str) >= Len(tok) /\ SubSeq(str, 1, Len(tok)) = tok

Contains(str, tok) ==
  \E k \in 1..Len(str) : StartsWith(SubSeq(str, k, Len(str)), tok)

\* String.prototype.split(separator): the pieces between the leftmost,
\* non-overlapping occurrences of the separator; ''.split(sep) is [''].
RECURSIVE SplitFrom(_, _, _)
SplitFrom(str, tok, from) ==
  LET hits == {k \in from..(Len(str) - Len(tok) + 1) :
                 SubSeq(str, k, k + Len(tok) - 1) = tok}
  IN IF hits = {} THEN <<SubSeq(str, from, Len(str))>>
     ELSE LET k == CHOOSE h \in hits : \A j \in hits : h <= j
          IN <<SubSeq(str, from, k - 1)>> \o SplitFrom(str, tok, k + Len(tok))

Split(str, tok) == SplitFrom(str, tok, 1)

RECURSIVE TrimLeft(_)
TrimLeft(str) ==
  IF str # <<>> /\ Head(str) \in Whitespace THEN TrimLeft(Tail(str)) ELSE str

RECURSIVE TrimRight(_)
TrimRight(str) ==
  IF str # <<>> /\ str[Len(str)] \in Whitespace
    THEN TrimRight(SubSeq(str, 1, Len(str) - 1)) ELSE str

\* String.prototype.trim()
Trim(str) == TrimRight(TrimLeft(str))

\* AppleScript "resultList as text" with text item delimiters set to sep.
RECURSIVE Join(_, _)
Join(items, sep) ==
  IF items = <<>> THEN <<>>
  ELSE IF Len(items) = 1 THEN items[1]
  ELSE items[1] \o sep \o Join(Tail(items), sep)

BoolText(b) == IF b THEN TrueText ELSE FalseText

\* listMacros / searchMacros / listGroups scripts:
\*   set end of resultList to (name) & "|||" & (id)
NameIdItems(list) ==
  [k \in 1..Len(list) |-> list[k].name \o FieldSep \o UidAt(k)]

\* listActions script:
\*   set end of resultList to (i as text) & "|||" & actionName & "|||" & (actionEnabled as text)
ActionItems(list) ==
  [k \in 1..Len(list) |->
     <<Digits[k]>> \o FieldSep \o list[k].name \o FieldSep \o BoolText(list[k].enabled)]

ListScript(d, list) ==
  Join(IF d = "listActions" THEN ActionItems(list) ELSE NameIdItems(list), RecordSep)

\* osascript prints the script's result followed by a newline.
osascript(result) == Append(result, Newline)

\* runAppleScriptFile returns stdout.trim().
runAppleScriptFile(stdout) == Trim(stdout)

\* const [a, b, c] = item.split('|||'): a missing piece is undefined.
Piece(parts, k) == IF k <= Len(parts) THEN parts[k] ELSE Undefined

\* x || ''
OrEmpty(x) == IF x = Undefined THEN <<>> ELSE x

\* x?.trim() || ''
TrimOrEmpty(x) == IF x = Undefined THEN <<>> ELSE Trim(x)

DigitValue(ch) == CHOOSE v \in 1..9 : Digits[v] = ch
IsDigit(ch) == \E v \in 1..9 : Digits[v] = ch

RECURSIVE LeadingNumber(_, _)
LeadingNumber(str, acc) ==
  IF str # <<>> /\ IsDigit(Head(str))
    THEN LeadingNumber(Tail(str), acc * 10 + DigitValue(Head(str)))
    ELSE acc

\* parseInt(x): leading blanks skipped, then the longest run of digits.
parseInt(x) ==
  IF x = Undefined THEN NaN
  ELSE LET t == TrimLeft(x) IN
       IF t # <<>> /\ IsDigit(Head(t)) THEN LeadingNumber(t, 0) ELSE NaN

MapSeq(items, F(_)) == [k \in 1..Len(items) |-> F(items[k])]

DecodeMacroItem(item) ==
  LET parts == Split(item, FieldSep) IN
  [name |-> OrEmpty(Piece(parts, 1)), uid |-> OrEmpty(Piece(parts, 2))]

DecodeGroupItem(item) ==
  LET parts == Split(item, FieldSep) IN
  [name |-> TrimOrEmpty(Piece(parts, 1)), uid |-> TrimOrEmpty(Piece(parts, 2))]

DecodeActionItem(item) ==
  LET parts == Split(item, FieldSep) IN
  [index |-> parseInt(Piece(parts, 1)), name |-> Piece(parts, 2),
   enabled |-> (Piece(parts, 3) = TrueText)]

\* .filter(g => g.name)
FilterNamed(items) == SelectSeq(items, LAMBDA g : g.name # <<>>)

\* if (!result.trim()) return [];
\* return result.split(';;;').map(item => ...)
decodeListMacros_nocheck(result) ==
  MapSeq(Split(result, RecordSep), DecodeMacroItem)

decodeListMacros(result) ==
  IF Trim(result) = <<>> THEN <<>>
  ELSE MapSeq(Split(result, RecordSep), DecodeMacroItem)

decodeListGroups(result) ==
  IF Trim(result) = <<>> THEN <<>>
  ELSE FilterNamed(MapSeq(Split(result, RecordSep), DecodeGroupItem))

decodeListActions(result) ==
  IF Trim(result) = <<>> THEN <<>>
  ELSE MapSeq(Split(result, RecordSep), DecodeActionItem)

Decoders == {"listMacros", "searchMacros", "listGroups", "listActions"}

Decode(d, result) ==
  CASE d \in {"listMacros", "searchMacros"} -> decodeListMacros(result)
    [] d = "listGroups" -> decodeListGroups(result)
    [] d = "listActions" -> decodeListActions(result)

\* An entity (macro, group or action) is created in the engine; the result of
\* an earlier list operation has been handed to its caller by then.
EngineCreate(name, enabled) ==
  /\ Len(records) < MaxRecords
  /\ records' = Append(records, [name |-> name, enabled |-> enabled])
  /\ decoder' = "none"
  /\ raw' = <<>>
  /\ decoded' = <<>>

\* A list operation: its script enumerates the entities, runAppleScriptFile
\* returns the trimmed output, the operation decodes it.
RunListOperation(d) ==
  /\ decoder' = d
  /\ raw' = osascript(ListScript(d, records))
  /\ decoded' = Decode(d, runAppleScriptFile(raw'))
  /\ UNCHANGED records

DNext ==
  \/ \E name \in Names, enabled \in BOOLEAN : EngineCreate(name, enabled)
  \/ \E d \in Decoders : RunListOperation(d)

\* SpecOutput: what the decoders make of any text osascript may print.
OutputPieces == {<<"a">>, <<"1">>, <<Space>>, FieldSep, RecordSep, TrueText}

RECURSIVE OutputsUpTo(_)
OutputsUpTo(n) ==
  IF n = 0 THEN {<<>>}
  ELSE OutputsUpTo(n - 1) \cup
       {t \o piece : t \in OutputsUpTo(n - 1), piece \in OutputPieces}

Outputs == OutputsUpTo(MaxPieces)

\* A list operation whose script printed the given text.
DecodeOutput(d, text) ==
  /\ decoder = "none"
  /\ decoder' = d
  /\ raw' = osascript(text)
  /\ decoded' = Decode(d, runAppleScriptFile(raw'))
  /\ UNCHANGED records

OutputNext == \E d \in Decoders, text \in Outputs : DecodeOutput(d, text)

(***************************************************************************)
(* SpecEdit: the 1-based action index space of one macro                   *)
(***************************************************************************)
ActionIds == 1..MaxEditActions

Remove(seq, i) == SubSeq(seq, 1, i - 1) \o SubSeq(seq, i + 1, Len(seq))
InsertAt(seq, k, x) == SubSeq(seq, 1, k - 1) \o <<x>> \o SubSeq(seq, k, Len(seq))

\* "move action i to after last action"
MoveAfterLast(seq, i) == Append(Remove(seq, i), seq[i])

\* "move action i to before action j": the action lands immediately before
\* the action that was at position j.
MoveBefore(seq, i, j) ==
  IF i = j THEN seq
  ELSE InsertAt(Remove(seq, i), IF i < j THEN j - 1 ELSE j, seq[i])

moveActionScript_nobranch(seq, i, j) ==
  IF i \in 1..Len(seq) /\ j \in 1..Len(seq)
    THEN [ok |-> TRUE, seq |-> MoveBefore(seq, i, j)]
    ELSE [ok |-> FALSE, seq |-> seq]

\* The script moveAction generates, run by the engine on the macro's actions:
\*   if newIndex > count of actions then move action i to after last action
\*   else move action i to before action newIndex
\* A reference to an action that does not exist is a script error.
moveActionScript(seq, i, j) ==
  IF j > Len(seq)
    THEN IF i \in 1..Len(seq)
           THEN [ok |-> TRUE, seq |-> MoveAfterLast(seq, i)]
           ELSE [ok |-> FALSE, seq |-> seq]
    ELSE IF i \in 1..Len(seq) /\ j \in 1..Len(seq)
           THEN [ok |-> TRUE, seq |-> MoveBefore(seq, i, j)]
           ELSE [ok |-> FALSE, seq |-> seq]

\* "delete action i"
deleteActionScript(seq, i) ==
  IF i \in 1..Len(seq)
    THEN [ok |-> TRUE, seq |-> Remove(seq, i)]
    ELSE [ok |-> FALSE, seq |-> seq]

\* The engine derives an action's name from its content, text parameters
\* included: one action of the pool is an Insert Text action whose text
\* holds ";;;", the others have plain names.
SeparatorNamed == 1
ActionName(a) ==
  IF a = SeparatorNamed THEN <<"a", ";", ";", ";", "a">> ELSE <<"a">>

\* The text the listActions script returns: (i as text) & "|||" & name &
\* "|||" & enabled, for i from 1 to count of actions, joined with ";;;".
listActionsScript(seq) ==
  ListScript("listActions",
             [k \in 1..Len(seq) |-> [name |-> ActionName(seq[k]), enabled |-> TRUE]])

OpResult(ok, success, failedPrefix) ==
  IF ok THEN Text(<<success>>) ELSE Failure(<<failedPrefix>> \o AppleScriptError)

\* addAction whose script ran and whose markup the engine accepted.
EditAdd(a) ==
  /\ Len(editActions) < MaxEditActions
  /\ a \notin {editActions[k] : k \in 1..Len(editActions)}
  /\ editActions' = Append(editActions, a)
  /\ lastOp' = [op |-> "addAction", i |-> 0, j |-> 0, pre |-> editActions,
                post |-> editActions', result |-> Text(<<SuccessText("addAction")>>),
                listing |-> <<>>]

deleteAction(i) ==
  LET r == deleteActionScript(editActions, i) IN
  /\ editActions' = r.seq
  /\ lastOp' = [op |-> "deleteAction", i |-> i, j |-> 0, pre |-> editActions,
                post |-> r.seq,
                result |-> OpResult(r.ok, "Action deleted from macro",
                                    "Failed to delete action: "),
                listing |-> <<>>]

moveAction(i, j) ==
  LET r == moveActionScript(editActions, i, j) IN
  /\ editActions' = r.seq
  /\ lastOp' = [op |-> "moveAction", i |-> i, j |-> j, pre |-> editActions,
                post |-> r.seq,
                result |-> OpResult(r.ok, "Moved action to index",
                                    "Failed to move action: "),
                listing |-> <<>>]

listActions ==
  /\ editActions' = editActions
  /\ lastOp' = [op |-> "listActions", i |-> 0, j |-> 0, pre |-> editActions,
                post |-> editActions,
                result |-> Text(<<"actions">>),
                listing |-> decodeListActions(
                   runAppleScriptFile(osascript(listActionsScript(editActions))))]

ENext ==
  \/ \E a \in ActionIds : EditAdd(a)
  \/ \E i \in 1..(MaxEditActions + 1) : deleteAction(i)
  \/ \E i \in 1..(MaxEditActions + 1), j \in 1..(MaxEditActions + 1) : moveAction(i, j)
  \/ listActions

(***************************************************************************)
(* SpecVariable: setVariable / getVariable / deleteVariable on one variable *)
(***************************************************************************)
VarChars == {"a", Quote, Backslash, Space}

RECURSIVE StringsOver(_, _)
StringsOver(chars, n) ==
  IF n = 0 THEN {<<>>}
  ELSE LET shorter == StringsOver(chars, n - 1) IN
       shorter \cup {Append(t, ch) : t \in shorter, ch \in chars}

VarValues == StringsOver(VarChars, MaxStrLen)

\* setVariable: `... setvariable "${name}" to "${escapedValue}"`, from the
\* quote that opens the value to the end of the script.
setVariableLiteral(value) == <<Quote>> \o EscapeQuotes(value) \o <<Quote>>

\* The script compiles when the literal closes on the script's last
\* character; the engine then stores the text the literal denotes.
setVariableScript(value) ==
  LET text == setVariableLiteral(value)
      lit == ScanLiteral(text, 2, <<>>)
  IN [ok |-> lit.valid /\ lit.closedAt = Len(text), value |-> lit.value]

\* runAppleScript returns stdout.trim().
runAppleScript(stdout) == Trim(stdout)

\* written: the value argument of the last setVariable that succeeded, while
\* nothing has written the variable since.
NoVarOp == [op |-> "none", ok |-> TRUE, returned |-> <<>>, written |-> Undefined]

\* deleteVariable: `... setvariable "${name}" to "%Delete%"`, from the quote
\* that opens the value to the end of the script.
DeleteToken == <<"%", "D", "e", "l", "e", "t", "e", "%">>
deleteVariableLiteral == <<Quote>> \o DeleteToken \o <<Quote>>

deleteVariableScript ==
  LET lit == ScanLiteral(deleteVariableLiteral, 2, <<>>)
  IN [ok |-> lit.valid /\ lit.closedAt = Len(deleteVariableLiteral),
      value |-> lit.value]

\* What the engine holds after `setvariable ... to <text>`: deleteVariable
\* reports the variable deleted after sending the text %Delete%.
engineSetVariable_stores(text) == text

engineSetVariable(text) == IF text = DeleteToken THEN <<>> ELSE text

\* engineUp = FALSE: osascript fails (the engine is not running).
setVariable(value, engineUp) ==
  LET r == setVariableScript(value)
      ok == engineUp /\ r.ok
  IN
  /\ kmVariable' = IF ok THEN engineSetVariable(r.value) ELSE kmVariable
  /\ varOp' = [op |-> "setVariable", ok |-> ok, returned |-> <<>>,
               written |-> IF ok THEN value ELSE varOp.written]

getVariable(engineUp) ==
  /\ kmVariable' = kmVariable
  /\ varOp' = [op |-> "getVariable", ok |-> engineUp,
               returned |-> IF engineUp THEN runAppleScript(osascript(kmVariable))
                            ELSE <<>>,
               written |-> varOp.written]

\* setvariable "name" to "%Delete%"
deleteVariable(engineUp) ==
  LET r == deleteVariableScript
      ok == engineUp /\ r.ok
  IN
  /\ kmVariable' = IF ok THEN engineSetVariable(r.value) ELSE kmVariable
  /\ varOp' = [op |-> "deleteVariable", ok |-> ok, returned |-> <<>>,
               written |-> IF ok THEN Undefined ELSE varOp.written]

\* A macro run by the engine sets the variable.
MacroSetsVariable(value) ==
  /\ kmVariable' = value
  /\ varOp' = [op |-> "external", ok |-> TRUE, returned |-> <<>>,
               written |-> Undefined]

VNext ==
  \/ \E value \in VarValues \cup {DeleteToken}, engineUp \in BOOLEAN :
        setVariable(value, engineUp)
  \/ \E engineUp \in BOOLEAN : getVariable(engineUp)
  \/ \E engineUp \in BOOLEAN : deleteVariable(engineUp)
  \/ \E value \in VarValues : MacroSetsVariable(value)

(***************************************************************************)
(* SpecParse: parseLogLine on one line of a log file                       *)
(***************************************************************************)
DecimalDigits == <<"0", "1", "2", "3", "4", "5", "6", "7", "8", "9">>
IsDecimal(ch) == \E v \in 1..10 : DecimalDigits[v] = ch
DecimalValue(ch) == (CHOOSE v \in 1..10 : DecimalDigits[v] = ch) - 1

UpperCase ==
  <<"A", "B", "C", "D", "E", "F", "G", "H", "I", "J", "K", "L", "M",
    "N", "O", "P", "Q", "R", "S", "T", "U", "V", "W", "X", "Y", "Z">>
LowerCase ==
  <<"a", "b", "c", "d", "e", "f", "g", "h", "i", "j", "k", "l", "m",
    "n", "o", "p", "q", "r", "s", "t", "u", "v", "w", "x", "y", "z">>

\* String.prototype.toLowerCase(), and the folding of the /i flag.
LowerChar(ch) ==
  IF \E v \in 1..26 : UpperCase[v] = ch
    THEN LowerCase[CHOOSE v \in 1..26 : UpperCase[v] = ch]
    ELSE ch
toLowerCase(str) == [k \in 1..Len(str) |-> LowerChar(str[k])]

\* \d{4}-\d{2}-\d{2}
IsDatePart(str) ==
  /\ Len(str) = 10
  /\ \A k \in {1, 2, 3, 4, 6, 7, 9, 10} : IsDecimal(str[k])
  /\ str[5] = "-" /\ str[8] = "-"

\* \d{2}:\d{2}:\d{2}
IsTimePart(str) ==
  /\ Len(str) = 8
  /\ \A k \in {1, 2, 4, 5, 7, 8} : IsDecimal(str[k])
  /\ str[3] = ":" /\ str[6] = ":"

\* \s+ from position pos on: the first position that holds no whitespace
\* (Len + 1 if the whitespace runs to the end).
RECURSIVE SkipWhitespace(_, _)
SkipWhitespace(str, pos) ==
  IF pos <= Len(str) /\ str[pos] \in Whitespace
    THEN SkipWhitespace(str, pos + 1) ELSE pos

\* ^(\d{4}-\d{2}-\d{2}\s+\d{2}:\d{2}:\d{2}): the position of the last
\* character of the timestamp, 0 if the line does not start with one.
TimestampEnd(line) ==
  IF Len(line) >= 10 /\ IsDatePart(SubSeq(line, 1, 10))
    THEN LET t == SkipWhitespace(line, 11) IN
         IF t > 11 /\ Len(line) >= t + 7 /\ IsTimePart(SubSeq(line, t, t + 7))
           THEN t + 7 ELSE 0
    ELSE 0

\* \s+(.+)$ after the timestamp: the position where the message starts, 0 if
\* there is no match. \s+ is greedy and gives back one character when it has
\* taken the rest of the line. (A line is a piece of split('\n') and holds no
\* line terminator, so . matches each of its characters.)
MessageStart(line, tsEnd) ==
  LET m == SkipWhitespace(line, tsEnd + 1) IN
  IF m = tsEnd + 1 THEN 0
  ELSE IF m <= Len(line) THEN m
  ELSE IF m - 1 >= tsEnd + 2 THEN m - 1
  ELSE 0

RECURSIVE DecimalNumber(_, _)
DecimalNumber(str, acc) ==
  IF str = <<>> THEN acc
  ELSE DecimalNumber(Tail(str), acc * 10 + DecimalValue(Head(str)))

\* Days from 1970-01-01 to the civil date y-m-d.
DaysFromCivil(y, m, d) ==
  LET yy == IF m <= 2 THEN y - 1 ELSE y
      era == yy \div 400
      yoe == yy - era * 400
      mp == (m + 9) % 12
      doy == (153 * mp + 2) \div 5 + d - 1
      doe == yoe * 365 + yoe \div 4 - yoe \div 100 + doy
  IN era * 146097 + doe - 719468

\* new Date(timestamp) of an Invalid Date; a date compares false with it.
InvalidDate == -1

\* new Date(timestamp) for "YYYY-MM-DD<blanks>HH:MM:SS", read as local time:
\* seconds since 1970-01-01 00:00:00 local time (the zone offset is the same
\* for every date read here). Fields out of range give an Invalid Date.
DateOf(timestamp) ==
  LET t == SkipWhitespace(timestamp, 11)
      y == DecimalNumber(SubSeq(timestamp, 1, 4), 0)
      mo == DecimalNumber(SubSeq(timestamp, 6, 7), 0)
      d == DecimalNumber(SubSeq(timestamp, 9, 10), 0)
      h == DecimalNumber(SubSeq(timestamp, t, t + 1), 0)
      mi == DecimalNumber(SubSeq(timestamp, t + 3, t + 4), 0)
      sec == DecimalNumber(SubSeq(timestamp, t + 6, t + 7), 0)
  IN IF y >= 1970 /\ mo \in 1..12 /\ d \in 1..31 /\ h <= 23 /\ mi <= 59 /\ sec <= 59
       THEN DaysFromCivil(y, mo, d) * 86400 + h * 3600 + mi * 60 + sec
       ELSE InvalidDate

\* /failed|error|cancelled|timeout/i
ErrorKeywords ==
  {<<"f", "a", "i", "l", "e", "d">>,
   <<"e", "r", "r", "o", "r">>,
   <<"c", "a", "n", "c", "e", "l", "l", "e", "d">>,
   <<"t", "i", "m", "e", "o", "u", "t">>}

isError_caseSensitive(message) ==
  \E kw \in ErrorKeywords : Contains(message, kw)

isError(message) ==
  \E kw \in ErrorKeywords : Contains(toLowerCase(message), kw)

\* message.match(/<prefix>"([^"]+)"/): the leftmost position from which the
\* prefix, an opening quote, at least one character that is no quote, and a
\* closing quote follow; the match's group 1, or Undefined without a match.
RECURSIVE QuotedAfter(_, _, _)
QuotedAfter(message, prefix, pos) ==
  IF pos > Len(message) THEN Undefined
  ELSE LET rest == SubSeq(message, pos, Len(message))
           open == Len(prefix) + 1
           from == SubSeq(rest, open + 1, Len(rest))
           close == CHOOSE k \in 1..(Len(from) + 1) :
                      /\ k = Len(from) + 1 \/ from[k] = Quote
                      /\ \A i \in 1..(k - 1) : from[i] # Quote
       IN IF /\ StartsWith(rest, prefix)
             /\ Len(rest) >= open /\ rest[open] = Quote
             /\ close >= 2 /\ close <= Len(from)
            THEN SubSeq(from, 1, close - 1)
            ELSE QuotedAfter(message, prefix, pos + 1)

MacroPrefix == <<"M", "a", "c", "r", "o", Space>>
ExecuteMacroPrefix == <<"E", "x", "e", "c", "u", "t", "e", Space, "m", "a", "c", "r", "o", Space>>
ActionPrefix == <<"A", "c", "t", "i", "o", "n", Space>>

\* message.match(/Action (\d+)/): group 1 of the leftmost match.
RECURSIVE DigitsAfter(_, _, _)
DigitsAfter(message, prefix, pos) ==
  IF pos > Len(message) THEN Undefined
  ELSE LET rest == SubSeq(message, pos, Len(message))
           from == SubSeq(rest, Len(prefix) + 1, Len(rest))
           stop == CHOOSE k \in 1..(Len(from) + 1) :
                     /\ k = Len(from) + 1 \/ ~IsDecimal(from[k])
                     /\ \A i \in 1..(k - 1) : IsDecimal(from[i])
       IN IF StartsWith(rest, prefix) /\ stop >= 2
            THEN SubSeq(from, 1, stop - 1)
            ELSE DigitsAfter(message, prefix, pos + 1)

\* Pattern 1, then pattern 2 if (!macroName).
macroNameOf_execFirst(message) ==
  LET execMatch == QuotedAfter(message, ExecuteMacroPrefix, 1) IN
  IF execMatch # Undefined THEN execMatch
  ELSE QuotedAfter(message, MacroPrefix, 1)

macroNameOf(message) ==
  LET macroMatch == QuotedAfter(message, MacroPrefix, 1) IN
  IF macroMatch # Undefined THEN macroMatch
  ELSE QuotedAfter(message, ExecuteMacroPrefix, 1)

\* parseLogLine(line): no entry (null) or one entry.
parseLogLine(line) ==
  LET tsEnd == TimestampEnd(line)
      m == IF tsEnd = 0 THEN 0 ELSE MessageStart(line, tsEnd)
      timestamp == SubSeq(line, 1, tsEnd)
      message == SubSeq(line, m, Len(line))
  IN IF m = 0 THEN <<>>
     ELSE <<[timestamp |-> timestamp,
             date |-> DateOf(timestamp),
             message |-> message,
             isError |-> isError(message),
             macroName |-> macroNameOf(message),
             actionId |-> DigitsAfter(message, ActionPrefix, 1)]>>

\* The starts of the lines parsed: with a timestamp and blanks after it,
\* and without (no timestamp, no blank after it, a blank before it, a
\* one-digit month, an ISO 'T').
LineHeads ==
  {<<"2", "0", "2", "5", "-", "0", "1", "-", "0", "1", Space, "1", "0", ":", "0",
    "0", ":", "0", "0", Space>>,
   <<"2", "0", "2", "5", "-", "0", "1", "-", "0", "1", Space, "1", "0", ":", "0",
    "0", ":", "0", "0", Tab>>,
   <<"2", "0", "2", "5", "-", "0", "1", "-", "0", "1", Space, Space, "1", "0",
    ":", "0", "0", ":", "0", "0", Space, Space>>,
   <<>>,
   <<"2", "0", "2", "5", "-", "0", "1", "-", "0", "1", Space, "1", "0", ":", "0",
    "0", ":", "0", "0">>,
   <<Space, "2", "0", "2", "5", "-", "0", "1", "-", "0", "1", Space, "1", "0",
    ":", "0", "0", ":", "0", "0", Space>>,
   <<"2", "0", "2", "5", "-", "1", "-", "0", "1", Space, "1", "0", ":", "0", "0",
    ":", "0", "0", Space>>,
   <<"2", "0", "2", "5", "-", "0", "1", "-", "0", "1", "T", "1", "0", ":", "0",
    "0", ":", "0", "0", Space>>}

\* Pieces of message text.
MessageParts ==
  {<<"E", "x", "e", "c", "u", "t", "e", Space, "m", "a", "c", "r", "o", Space,
    Quote, "D", "a", "i", "l", "y", Space, "B", "a", "c", "k", "u", "p",
    Quote>>,
   <<Space, "f", "a", "i", "l", "e", "d">>,
   <<"M", "a", "c", "r", "o", Space, Quote, "A", Quote>>,
   <<"M", "a", "c", "r", "o", Space, Quote, Quote>>,
   <<"M", "a", "c", "r", "o", Space, Quote, "B">>,
   <<Space, "E", "R", "R", "O", "R">>,
   <<Space, "T", "i", "m", "e", "o", "u", "t">>,
   <<Space, "c", "a", "n", "c", "e", "l", "e", "d">>,
   <<Space, "A", "c", "t", "i", "o", "n", Space, "1", "2">>,
   <<Space>>}

RECURSIVE MessagesUpTo(_)
MessagesUpTo(n) ==
  IF n = 0 THEN {<<>>}
  ELSE LET shorter == MessagesUpTo(n - 1) IN
       shorter \cup {t \o part : t \in shorter, part \in MessageParts}

LogLines == {head \o message : head \in LineHeads, message \in MessagesUpTo(MaxParts)}

\* recentLines.map(parseLogLine) applied to one element: a behaviour parses
\* one line.
ParseLine(line) ==
  /\ logLine = <<>>
  /\ logLine' = line
  /\ entry' = parseLogLine(line)

PNext == \E line \in LogLines : ParseLine(line)

(***************************************************************************)
(* SpecSummary, SpecLog: the log files and their readers                   *)
(***************************************************************************)
\* Lines the engine writes: errors of macro "A" and of macro "B", a run of
\* "A" without error, at different times.
ErrorOfA ==
  <<"2", "0", "2", "5", "-", "0", "1", "-", "0", "2", Space, "0", "9", ":", "0",
   "0", ":", "0", "0", Space, "M", "a", "c", "r", "o", Space, Quote, "A",
   Quote, Space, "f", "a", "i", "l", "e", "d">>
ErrorOfB ==
  <<"2", "0", "2", "5", "-", "0", "1", "-", "0", "1", Space, "1", "2", ":", "0",
   "0", ":", "0", "0", Space, "E", "x", "e", "c", "u", "t", "e", Space, "m",
   "a", "c", "r", "o", Space, Quote, "B", Quote, Space, "t", "i", "m", "e",
   "o", "u", "t">>
OldErrorOfA ==
  <<"2", "0", "2", "4", "-", "1", "2", "-", "3", "1", Space, "2", "3", ":", "5",
   "9", ":", "5", "9", Space, "M", "a", "c", "r", "o", Space, Quote, "A",
   Quote, Space, "c", "a", "n", "c", "e", "l", "l", "e", "d">>
RunOfA ==
  <<"2", "0", "2", "5", "-", "0", "1", "-", "0", "2", Space, "0", "9", ":", "3",
   "0", ":", "0", "0", Space, "M", "a", "c", "r", "o", Space, Quote, "A",
   Quote, Space, "e", "x", "e", "c", "u", "t", "e", "d">>

LogPool == {ErrorOfA, ErrorOfB, OldErrorOfA, RunOfA}

\* Date.now() when the log is read, in seconds.
DateNow ==
  DateOf(<<"2", "0", "2", "5", "-", "0", "1", "-", "0", "2", Space, "1", "0", ":", "0",
   "0", ":", "0", "0">>)

SecondsPerHour == 3600

\* Array.prototype.slice(start): from index start, counted from the end when
\* start is negative; slice(-0) is slice(0).
slice(seq, start) ==
  LET from == IF start < 0 THEN (IF Len(seq) + start > 0 THEN Len(seq) + start ELSE 0)
              ELSE (IF start < Len(seq) THEN start ELSE Len(seq))
  IN SubSeq(seq, from + 1, Len(seq))

RECURSIVE Flatten(_)
Flatten(seqs) == IF seqs = <<>> THEN <<>> ELSE Head(seqs) \o Flatten(Tail(seqs))

\* content.split('\n').filter(l => l.trim())
nonBlankLines(content) ==
  SelectSeq(Split(content, <<Newline>>), LAMBDA l : Trim(l) # <<>>)

\* recentLines.map(parseLogLine).filter(e => e !== null)
parseLines(recentLines) ==
  Flatten([k \in 1..Len(recentLines) |-> parseLogLine(recentLines[k])])

\* entries.filter(e => e.date >= since); since is <<>> when the option is
\* absent and <<date>> when given; an invalid date compares false.
sinceFilter_none(entries, since) == entries

sinceFilter(entries, since) ==
  IF since = <<>> THEN entries
  ELSE SelectSeq(entries, LAMBDA e : e.date # InvalidDate /\ e.date >= since[1])

\* entries.filter(e => e.macroName?.toLowerCase().includes(filter)); an
\* undefined or empty macroFilter filters nothing.
macroFilterOf(entries, macroFilter) ==
  IF macroFilter = Undefined \/ macroFilter = <<>> THEN entries
  ELSE SelectSeq(entries,
         LAMBDA e : /\ e.macroName # Undefined
                    /\ Contains(toLowerCase(e.macroName), toLowerCase(macroFilter)))

\* The entries readEngineLog returns for a readable file.
readEngineLogEntries(content, lines, errorsOnly, since, macroFilter) ==
  LET recentLines == slice(nonBlankLines(content), 0 - lines)
      parsed == parseLines(recentLines)
      errors == IF errorsOnly THEN SelectSeq(parsed, LAMBDA e : e.isError) ELSE parsed
  IN macroFilterOf(sinceFilter(errors, since), macroFilter)

readEditorLogEntries(content, lines) ==
  parseLines(slice(nonBlankLines(content), 0 - lines))

DefaultLines == 100
DefaultHours == 24
SummaryLines == 5000
RecentErrors == 10

Unknown == <<"U", "n", "k", "n", "o", "w", "n">>

\* A line that is blank and a line without a timestamp.
BlankLine == <<Space>>
UntimedLine == <<"E", "n", "g", "i", "n", "e", Space, "s", "t", "a", "r", "t", "e", "d">>
EditorLine == <<"2", "0", "2", "5", "-", "0", "1", "-", "0", "2", Space, "0", "9", ":", "0",
   "0", ":", "0", "0", Space, "E", "d", "i", "t", "o", "r", Space, "l", "a",
   "u", "n", "c", "h", "e", "d">>

TailPool == {ErrorOfA, RunOfA, BlankLine, UntimedLine}
EditorPool == {EditorLine, BlankLine}

\* A log file that does not exist yet; the first line written creates it.
NoLogFile == Undefined

NoSummary == [totalErrors |-> 0, errorsByMacro |-> <<>>, recentErrors |-> <<>>]

NoLogOp ==
  [op |-> "none", arg |-> <<>>, ok |-> TRUE, entries |-> <<>>,
   summary |-> NoSummary]

LInit ==
  /\ engineLog = NoLogFile
  /\ editorLog = NoLogFile
  /\ logOp = NoLogOp

LinesWritten(file) ==
  IF file = NoLogFile THEN 0
  ELSE Cardinality({k \in 1..Len(file) : file[k] = Newline})

WriteLine(file, line) ==
  (IF file = NoLogFile THEN <<>> ELSE file) \o line \o <<Newline>>

\* The engine writes a line to its log.
AppendEngineLine(line, max) ==
  /\ LinesWritten(engineLog) < max
  /\ engineLog' = WriteLine(engineLog, line)
  /\ logOp' = NoLogOp
  /\ UNCHANGED editorLog

\* The editor writes a line to its log.
AppendEditorLine(line, max) ==
  /\ LinesWritten(editorLog) < max
  /\ editorLog' = WriteLine(editorLog, line)
  /\ logOp' = NoLogOp
  /\ UNCHANGED engineLog

\* An option that may be absent: <<>> or <<value>>.
OrDefault(arg, default) == IF arg = <<>> THEN default ELSE arg[1]

\* args.x || default: an absent or zero number gives the default.
OrElse(arg, default) == IF arg = <<>> \/ arg[1] = 0 THEN default ELSE arg[1]

\* readEngineLog(options)
ReadEngineLog(lines, errorsOnly, since, macroFilter) ==
  /\ logOp' =
       IF engineLog = NoLogFile
       THEN [NoLogOp EXCEPT !.op = "readEngineLog", !.arg = lines, !.ok = FALSE]
       ELSE [NoLogOp EXCEPT !.op = "readEngineLog", !.arg = lines,
               !.entries = readEngineLogEntries(engineLog, OrDefault(lines, DefaultLines),
                                                errorsOnly, since, macroFilter)]
  /\ UNCHANGED <<engineLog, editorLog>>

\* readEditorLog(lines)
ReadEditorLog(lines) ==
  /\ logOp' =
       IF editorLog = NoLogFile
       THEN [NoLogOp EXCEPT !.op = "readEditorLog", !.arg = lines, !.ok = FALSE]
       ELSE [NoLogOp EXCEPT !.op = "readEditorLog", !.arg = lines,
               !.entries = readEditorLogEntries(editorLog, OrDefault(lines, DefaultLines))]
  /\ UNCHANGED <<engineLog, editorLog>>

\* The km_get_log tool: lines = args.lines || 100, no since.
km_get_log(lines, errorsOnly, macroFilter) ==
  /\ logOp' =
       IF engineLog = NoLogFile
       THEN [NoLogOp EXCEPT !.op = "km_get_log", !.arg = lines, !.ok = FALSE]
       ELSE [NoLogOp EXCEPT !.op = "km_get_log", !.arg = lines,
               !.entries = readEngineLogEntries(engineLog, OrElse(lines, DefaultLines),
                                                errorsOnly, <<>>, macroFilter)]
  /\ UNCHANGED <<engineLog, editorLog>>

KeyOf(e) == IF e.macroName = Undefined THEN Unknown ELSE e.macroName

\* The grouping loop of getErrorSummary.
errorsByMacroOf_first(entries) ==
  LET keys == {KeyOf(entries[k]) : k \in 1..Len(entries)}
      of(key) == SelectSeq(entries, LAMBDA e : KeyOf(e) = key)
  IN [key \in keys |->
        [count |-> Len(of(key)),
         lastError |-> of(key)[1].message,
         lastTime |-> of(key)[1].timestamp]]

errorsByMacroOf(entries) ==
  LET keys == {KeyOf(entries[k]) : k \in 1..Len(entries)}
      of(key) == SelectSeq(entries, LAMBDA e : KeyOf(e) = key)
  IN [key \in keys |->
        [count |-> Len(of(key)),
         lastError |-> of(key)[Len(of(key))].message,
         lastTime |-> of(key)[Len(of(key))].timestamp]]

getErrorSummary_all(content, hours) ==
  LET since == DateNow - hours * SecondsPerHour
      entries == readEngineLogEntries(content, SummaryLines, TRUE, <<since>>, Undefined)
  IN [totalErrors |-> Len(entries),
      errorsByMacro |-> errorsByMacroOf(entries),
      recentErrors |-> entries]

getErrorSummary(content, hours) ==
  LET since == DateNow - hours * SecondsPerHour
      entries == readEngineLogEntries(content, SummaryLines, TRUE, <<since>>, Undefined)
  IN [totalErrors |-> Len(entries),
      errorsByMacro |-> errorsByMacroOf(entries),
      recentErrors |-> slice(entries, 0 - RecentErrors)]

\* The km_get_errors tool: hours = args.hours || 24.
km_get_errors(hours) ==
  /\ logOp' =
       IF engineLog = NoLogFile
       THEN [NoLogOp EXCEPT !.op = "km_get_errors", !.arg = hours, !.ok = FALSE]
       ELSE [NoLogOp EXCEPT !.op = "km_get_errors", !.arg = hours,
               !.summary = getErrorSummary(engineLog, OrElse(hours, DefaultHours))]
  /\ UNCHANGED <<engineLog, editorLog>>

HoursArgs == {<<>>, <<1>>}
LinesArgs == {<<>>, <<0>>, <<1>>}
SinceArgs == {<<>>, <<DateNow - DefaultHours * SecondsPerHour>>}
FilterArgs == {Undefined, <<"a">>}

\* A read leaves both files alone, so one read after each write reaches
\* every pair of file contents and response.
SummaryNext ==
  \/ \E line \in LogPool : AppendEngineLine(line, MaxLogLines)
  \/ logOp = NoLogOp /\ \E hours \in HoursArgs : km_get_errors(hours)

\* More lines of the engine: a later error of "A" and an error that names no
\* macro.
LaterErrorOfA ==
  <<"2", "0", "2", "5", "-", "0", "1", "-", "0", "2", Space, "0", "9", ":", "4",
   "5", ":", "0", "0", Space, "M", "a", "c", "r", "o", Space, Quote, "A",
   Quote, Space, "t", "i", "m", "e", "o", "u", "t">>
UnnamedError ==
  <<"2", "0", "2", "5", "-", "0", "1", "-", "0", "2", Space, "0", "9", ":", "5",
   "0", ":", "0", "0", Space, "A", "c", "t", "i", "o", "n", Space, "1", "2",
   Space, "f", "a", "i", "l", "e", "d">>

RecentPool == {ErrorOfA, LaterErrorOfA, ErrorOfB, UnnamedError, RunOfA}

RECURSIVE Repeat(_, _)
Repeat(text, times) == IF times = 0 THEN <<>> ELSE text \o Repeat(text, times - 1)

\* The engine starts its log with a run of errors of macro "B".
WriteBacklog ==
  /\ engineLog = NoLogFile
  /\ engineLog' = Repeat(ErrorOfB \o <<Newline>>, BacklogLines)
  /\ logOp' = NoLogOp
  /\ UNCHANGED editorLog

RecentNext ==
  \/ WriteBacklog
  \/ engineLog # NoLogFile /\
       \E line \in RecentPool : AppendEngineLine(line, BacklogLines + MaxRecentLines)
  \/ logOp = NoLogOp /\ \E hours \in HoursArgs : km_get_errors(hours)

LogNext ==
  \/ \E line \in TailPool : AppendEngineLine(line, MaxTailLines)
  \/ \E line \in EditorPool : AppendEditorLine(line, MaxEditorLines)
  \/ logOp = NoLogOp /\
       \E lines \in LinesArgs, errorsOnly \in BOOLEAN, since \in SinceArgs,
          macroFilter \in FilterArgs :
         ReadEngineLog(lines, errorsOnly, since, macroFilter)
  \/ logOp = NoLogOp /\ \E lines \in LinesArgs : ReadEditorLog(lines)
  \/ logOp = NoLogOp /\
       \E lines \in LinesArgs, errorsOnly \in BOOLEAN, macroFilter \in FilterArgs :
         km_get_log(lines, errorsOnly, macroFilter)

(***************************************************************************)
(* SpecWrap: the envelope writeTempXml puts around a payload               *)
(***************************************************************************)
XmlDeclaration ==
  <<"<", "?", "x", "m", "l">>
DoctypeToken ==
  <<"<", "!", "D", "O", "C", "T", "Y", "P", "E">>
PlistToken ==
  <<"<", "p", "l", "i", "s", "t">>

EnvelopeHead ==
  <<"<", "?", "x", "m", "l", Space, "v", "e", "r", "s", "i", "o", "n", "=",
   Quote, "1", ".", "0", Quote, Space, "e", "n", "c", "o", "d", "i", "n", "g",
   "=", Quote, "U", "T", "F", "-", "8", Quote, "?", ">", Newline, "<", "!",
   "D", "O", "C", "T", "Y", "P", "E", Space, "p", "l", "i", "s", "t", Space,
   "P", "U", "B", "L", "I", "C", Space, Quote, "-", "/", "/", "A", "p", "p",
   "l", "e", "/", "/", "D", "T", "D", Space, "P", "L", "I", "S", "T", Space,
   "1", ".", "0", "/", "/", "E", "N", Quote, Space, Quote, "h", "t", "t", "p",
   ":", "/", "/", "w", "w", "w", ".", "a", "p", "p", "l", "e", ".", "c", "o",
   "m", "/", "D", "T", "D", "s", "/", "P", "r", "o", "p", "e", "r", "t", "y",
   "L", "i", "s", "t", "-", "1", ".", "0", ".", "d", "t", "d", Quote, ">",
   Newline, "<", "p", "l", "i", "s", "t", Space, "v", "e", "r", "s", "i", "o",
   "n", "=", Quote, "1", ".", "0", Quote, ">", Newline>>
EnvelopeTail ==
  <<Newline, "<", "/", "p", "l", "i", "s", "t", ">">>

wrapXmlInPlist_always(xml) == EnvelopeHead \o Trim(xml) \o EnvelopeTail

\* wrapXmlInPlist(xml)
wrapXmlInPlist(xml) ==
  LET trimmed == Trim(xml)
  IN IF \/ StartsWith(trimmed, XmlDeclaration)
        \/ StartsWith(trimmed, DoctypeToken)
        \/ StartsWith(trimmed, PlistToken)
     THEN trimmed
     ELSE EnvelopeHead \o trimmed \o EnvelopeTail

\* The pieces payloads are made of.
XmlFragments ==
  {XmlDeclaration, DoctypeToken, PlistToken, <<"<", "?", "x", "m">>,
   <<"<", "P", "L", "I", "S", "T">>, <<"<", "d", "i", "c", "t", "/", ">">>,
   <<Space>>, <<Newline>>}

RECURSIVE PayloadsUpTo(_)
PayloadsUpTo(n) ==
  IF n = 0 THEN {<<>>}
  ELSE PayloadsUpTo(n - 1) \cup
       {p \o f : p \in PayloadsUpTo(n - 1), f \in XmlFragments}

Payloads == PayloadsUpTo(MaxFragments)

NotWritten == Undefined

WInit == xmlIn = <<>> /\ written = NotWritten /\ rewritten = NotWritten

\* fs.writeFileSync(tempPath, wrapXmlInPlist(xml), 'utf8')
WriteWrapped(payload) ==
  /\ written = NotWritten
  /\ xmlIn' = payload
  /\ written' = wrapXmlInPlist(payload)
  /\ UNCHANGED rewritten

\* The text of a staged file handed in as a payload again.
WrapAgain ==
  /\ written # NotWritten
  /\ rewritten = NotWritten
  /\ rewritten' = wrapXmlInPlist(written)
  /\ UNCHANGED <<xmlIn, written>>

WNext ==
  \/ \E payload \in Payloads : WriteWrapped(payload)
  \/ WrapAgain

(***************************************************************************)
(* SpecOps: one caller, whole operations and the scripts each one runs     *)
(***************************************************************************)
\* Names of macros in the engine: plain, and with one punctuation character.
MacroNames == {<<"a">>, <<"a", "|", "b">>, <<"a", ";", "b">>}

\* The id the engine gives the k-th macro it holds.
MacroUid(k) == <<"U", Digits[k]>>

PlainAction == [type |-> "xml", uid |-> <<>>]

\* first macro whose name is identifier or id is identifier; 0: no such macro
\* (the script fails).
FindMacro(macros, identifier) ==
  LET hits == {k \in 1..Len(macros) :
                 macros[k].name = identifier \/ macros[k].uid = identifier}
  IN IF hits = {} THEN 0 ELSE CHOOSE k \in hits : \A j \in hits : k <= j

FieldBar == "|"

\* return name of theMacro & "|" & id of theMacro & "|" & enabled of theMacro
getMacroScript(macro) ==
  macro.name \o <<FieldBar>> \o macro.uid \o <<FieldBar>> \o BoolText(macro.enabled)

NoJson == [name |-> Undefined, uid |-> Undefined, enabled |-> FALSE]

\* getMacro(identifier); ok = FALSE is an osascript failure of its own.
getMacro(macros, identifier, ok) ==
  LET k == FindMacro(macros, identifier)
  IN IF ok /\ k # 0
       THEN LET parts == Split(runAppleScriptFile(osascript(getMacroScript(macros[k]))),
                               <<FieldBar>>)
            IN [result |-> Text(<<"json">>),
                json |-> [name |-> parts[1], uid |-> Piece(parts, 2),
                          enabled |-> (Piece(parts, 3) = TrueText)]]
       ELSE [result |-> Rewrap("getMacro", AppleScriptError), json |-> NoJson]

UnlinkError == "<unlinkSync error>"

cleanupThrows_uncaught(unlinkOk) == ~unlinkOk

\* cleanupTempFile: try { fs.unlinkSync(filePath) } catch { }: whatever
\* unlinkSync does, nothing is thrown.
cleanupThrows(unlinkOk) == FALSE

\* finally { cleanupTempFile(tempPath) }: an exception leaving the finally
\* block would replace the outcome of the try block.
Finally(result, unlinkOk) ==
  IF cleanupThrows(unlinkOk) THEN Failure(<<UnlinkError>>) ELSE result

\* The scripts an operation runs fail at most once: failAt is the position of
\* the script that fails (0: none); nothing is run after it.
Ok(failAt, position) == failAt # position

addAction_continues(macros, macroIdentifier, payload, failAt, first, unlinkOk) ==
  LET k == FindMacro(macros, macroIdentifier)
      count1 == Ok(failAt, first) /\ k # 0
      make == k # 0 /\ Ok(failAt, first + 1)
      count2 == make /\ Ok(failAt, first + 2)
      beforeCount == IF k = 0 THEN 0 ELSE Len(macros[k].actions)
      after == IF make /\ payload.valid
                 THEN [macros EXCEPT ![k].actions = Append(@, payload.content)]
                 ELSE macros
      afterCount == IF k = 0 THEN 0 ELSE Len(after[k].actions)
      outcome == IF ~count2 THEN Rewrap("addAction", AppleScriptError)
                 ELSE IF NotApplied(beforeCount, afterCount)
                   THEN Rewrap("addAction", <<NotCreatedMsg>>)
                   ELSE Text(<<SuccessText("addAction")>>)
  IN [ran |-> <<"count">> \o (IF k # 0 THEN <<"make">> ELSE <<>>)
                \o (IF make THEN <<"count">> ELSE <<>>),
      macros |-> after,
      result |-> Finally(outcome, unlinkOk),
      left |-> ~unlinkOk]

\* addAction(macroIdentifier, actionXml) as one call: the scripts it ran, the
\* macros afterwards, its outcome, and whether the staged file is left.
\* first is the position of its first script among those of the operation.
addAction(macros, macroIdentifier, payload, failAt, first, unlinkOk) ==
  LET k == FindMacro(macros, macroIdentifier)
      count1 == Ok(failAt, first) /\ k # 0
      make == count1 /\ Ok(failAt, first + 1)
      count2 == make /\ Ok(failAt, first + 2)
      beforeCount == IF k = 0 THEN 0 ELSE Len(macros[k].actions)
      after == IF make /\ payload.valid
                 THEN [macros EXCEPT ![k].actions = Append(@, payload.content)]
                 ELSE macros
      afterCount == IF k = 0 THEN 0 ELSE Len(after[k].actions)
      outcome == IF ~count2 THEN Rewrap("addAction", AppleScriptError)
                 ELSE IF NotApplied(beforeCount, afterCount)
                   THEN Rewrap("addAction", <<NotCreatedMsg>>)
                   ELSE Text(<<SuccessText("addAction")>>)
  IN [ran |-> <<"count">> \o (IF count1 THEN <<"make">> ELSE <<>>)
                \o (IF make THEN <<"count">> ELSE <<>>),
      macros |-> after,
      result |-> Finally(outcome, unlinkOk),
      left |-> ~unlinkOk]

\* addTrigger, setActionXml, setTriggerXml: one script, then the release.
stagingCall(op, macros, macroIdentifier, failAt, unlinkOk) ==
  LET ok == Ok(failAt, 1) /\ FindMacro(macros, macroIdentifier) # 0
  IN [ran |-> <<"script">>,
      made |-> ok /\ op = "addTrigger",
      result |-> Finally(IF ok THEN Text(<<SuccessText(op)>>)
                         ELSE Rewrap(op, AppleScriptError), unlinkOk),
      left |-> ~unlinkOk]

createMacro_rollback(macros, name, actionXml, failAt, unlinkOk) ==
  LET created == Ok(failAt, 1)
      made == Append(macros, [name |-> name, uid |-> MacroUid(Len(macros) + 1),
                              enabled |-> TRUE, actions |-> <<>>])
      add == addAction(made, MacroUid(Len(macros) + 1), actionXml[1], failAt, 2, unlinkOk)
  IN IF ~created
       THEN [ran |-> <<"create">>, macros |-> macros, left |-> FALSE,
             result |-> Rewrap("createMacro", AppleScriptError)]
     ELSE IF actionXml = <<>>
       THEN [ran |-> <<"create">>, macros |-> made, left |-> FALSE,
             result |-> Text(<<SuccessText("createMacro")>>)]
     ELSE IF add.result.kind = "error"
       THEN [ran |-> <<"create">> \o add.ran \o <<"delete">>, macros |-> macros,
             left |-> add.left,
             result |-> Rewrap("createMacro", add.result.msg)]
     ELSE [ran |-> <<"create">> \o add.ran, macros |-> add.macros, left |-> add.left,
           result |-> Text(<<SuccessText("createMacro")>>)]

\* createMacro(name, actionXml): actionXml is <<>> when absent, <<payload>>
\* when given; the new macro's id is what the first script returned.
createMacro(macros, name, actionXml, failAt, unlinkOk) ==
  LET created == Ok(failAt, 1)
      made == Append(macros, [name |-> name, uid |-> MacroUid(Len(macros) + 1),
                              enabled |-> TRUE, actions |-> <<>>])
      add == addAction(made, MacroUid(Len(macros) + 1), actionXml[1], failAt, 2, unlinkOk)
  IN IF ~created
       THEN [ran |-> <<"create">>, macros |-> macros, left |-> FALSE,
             result |-> Rewrap("createMacro", AppleScriptError)]
     ELSE IF actionXml = <<>>
       THEN [ran |-> <<"create">>, macros |-> made, left |-> FALSE,
             result |-> Text(<<SuccessText("createMacro")>>)]
     ELSE IF add.result.kind = "error"
       THEN [ran |-> <<"create">> \o add.ran, macros |-> add.macros, left |-> add.left,
             result |-> Rewrap("createMacro", add.result.msg)]
     ELSE [ran |-> <<"create">> \o add.ran, macros |-> add.macros, left |-> add.left,
           result |-> Text(<<SuccessText("createMacro")>>)]

\* The action addExecuteMacroAction builds: <key>MacroUID</key>
\* <string>${macroUID}</string>.
ExecuteMacroAction(macroUID) ==
  [valid |-> TRUE, content |-> [type |-> "ExecuteMacro", uid |-> macroUID]]

\* addExecuteMacroAction(macroIdentifier, macroToExecute): getMacro, then
\* addAction, with no try block of its own.
addExecuteMacroAction(macros, macroIdentifier, macroToExecute, failAt, unlinkOk) ==
  LET got == getMacro(macros, macroToExecute, Ok(failAt, 1))
      add == addAction(macros, macroIdentifier, ExecuteMacroAction(got.json.uid),
                       failAt, 2, unlinkOk)
  IN IF got.result.kind = "error"
       THEN [ran |-> <<"getMacro">>, macros |-> macros, left |-> FALSE,
             result |-> got.result]
       ELSE [ran |-> <<"getMacro">> \o add.ran, macros |-> add.macros,
             left |-> add.left, result |-> add.result]

NoOp ==
  [op |-> "none", arg |-> <<>>, valid |-> TRUE, failAt |-> 0, unlinkOk |-> TRUE,
   ran |-> <<>>, result |-> NoResult, json |-> NoJson, before |-> <<>>]

OInit ==
  /\ kmMacros = <<>>
  /\ kmTriggers = 0
  /\ tempLeft = FALSE
  /\ opDone = NoOp

\* The operations address the first macro of the engine by its id.
TargetMacro == MacroUid(1)

\* The editor makes a macro.
ExternalCreate(name, enabled) ==
  /\ opDone = NoOp
  /\ Len(kmMacros) < MaxMacros
  /\ kmMacros' = Append(kmMacros, [name |-> name, uid |-> MacroUid(Len(kmMacros) + 1),
                                   enabled |-> enabled, actions |-> <<>>])
  /\ UNCHANGED <<kmTriggers, tempLeft, opDone>>

\* The editor adds an action to the first macro.
ExternalAddAction ==
  /\ opDone = NoOp
  /\ kmMacros # <<>>
  /\ Len(kmMacros[1].actions) < MaxMacroActions
  /\ kmMacros' = [kmMacros EXCEPT ![1].actions = Append(@, PlainAction)]
  /\ UNCHANGED <<kmTriggers, tempLeft, opDone>>

GetMacroOp(identifier, ok) ==
  LET call == getMacro(kmMacros, identifier, ok)
  IN /\ opDone = NoOp
     /\ opDone' = [NoOp EXCEPT !.op = "getMacro", !.arg = identifier,
                      !.failAt = IF ok THEN 0 ELSE 1, !.ran = <<"getMacro">>,
                      !.result = call.result, !.json = call.json, !.before = kmMacros]
     /\ UNCHANGED <<kmMacros, kmTriggers, tempLeft>>

AddActionOp(valid, failAt, unlinkOk) ==
  LET call == addAction(kmMacros, TargetMacro, [valid |-> valid, content |-> PlainAction],
                        failAt, 1, unlinkOk)
  IN /\ opDone = NoOp
     /\ opDone' = [NoOp EXCEPT !.op = "addAction", !.arg = TargetMacro, !.valid = valid,
                      !.failAt = failAt, !.unlinkOk = unlinkOk, !.ran = call.ran,
                      !.result = call.result, !.before = kmMacros]
     /\ kmMacros' = call.macros
     /\ tempLeft' = call.left
     /\ UNCHANGED kmTriggers

StagingOp(op, valid, failAt, unlinkOk) ==
  LET call == stagingCall(op, kmMacros, TargetMacro, failAt, unlinkOk)
  IN /\ opDone = NoOp
     /\ opDone' = [NoOp EXCEPT !.op = op, !.arg = TargetMacro, !.valid = valid,
                      !.failAt = failAt, !.unlinkOk = unlinkOk, !.ran = call.ran,
                      !.result = call.result, !.before = kmMacros]
     /\ kmTriggers' = IF call.made /\ valid THEN kmTriggers + 1 ELSE kmTriggers
     /\ tempLeft' = call.left
     /\ UNCHANGED kmMacros

CreateMacroOp(name, actionXml, failAt, unlinkOk) ==
  LET call == createMacro(kmMacros, name, actionXml, failAt, unlinkOk)
  IN /\ opDone = NoOp
     /\ opDone' = [NoOp EXCEPT !.op = "createMacro", !.arg = name,
                      !.valid = (actionXml # <<>> /\ actionXml[1].valid),
                      !.failAt = failAt, !.unlinkOk = unlinkOk, !.ran = call.ran,
                      !.result = call.result, !.before = kmMacros]
     /\ kmMacros' = call.macros
     /\ tempLeft' = call.left
     /\ UNCHANGED kmTriggers

AddExecuteMacroActionOp(macroToExecute, failAt, unlinkOk) ==
  LET call == addExecuteMacroAction(kmMacros, TargetMacro, macroToExecute, failAt, unlinkOk)
  IN /\ opDone = NoOp
     /\ opDone' = [NoOp EXCEPT !.op = "addExecuteMacroAction", !.arg = macroToExecute,
                      !.failAt = failAt, !.unlinkOk = unlinkOk, !.ran = call.ran,
                      !.result = call.result, !.before = kmMacros]
     /\ kmMacros' = call.macros
     /\ tempLeft' = call.left
     /\ UNCHANGED kmTriggers

ActionXmlArgs ==
  {<<>>, <<[valid |-> TRUE, content |-> PlainAction]>>,
   <<[valid |-> FALSE, content |-> PlainAction]>>}

ONext ==
  \/ \E name \in MacroNames, enabled \in BOOLEAN : ExternalCreate(name, enabled)
  \/ ExternalAddAction
  \/ \E identifier \in MacroNames \cup {TargetMacro}, ok \in BOOLEAN :
       GetMacroOp(identifier, ok)
  \/ \E valid \in BOOLEAN, failAt \in 0..3, unlinkOk \in BOOLEAN :
       AddActionOp(valid, failAt, unlinkOk)
  \/ \E op \in StagingOps \ {"addAction"}, valid \in BOOLEAN, failAt \in 0..1,
        unlinkOk \in BOOLEAN :
       StagingOp(op, valid, failAt, unlinkOk)
  \/ \E name \in MacroNames, actionXml \in ActionXmlArgs, failAt \in 0..4,
        unlinkOk \in BOOLEAN :
       CreateMacroOp(name, actionXml, failAt, unlinkOk)
  \/ \E macroToExecute \in MacroNames, failAt \in 0..4, unlinkOk \in BOOLEAN :
       AddExecuteMacroActionOp(macroToExecute, failAt, unlinkOk)

(***************************************************************************)
(* Initial values of the other groups                                      *)
(***************************************************************************)
EInit == editActions = <<>> /\ lastOp = [op |-> "none"]
HInit == request = [name |-> "none"] /\ response = [kind |-> "none"]
SInit == site = [op |-> "none"] /\ userStr = <<>> /\ script = <<>>
DInit == decoder = "none" /\ records = <<>> /\ raw = <<>> /\ decoded = <<>>
VInit == kmVariable = <<>> /\ varOp = NoVarOp
PInit == logLine = <<>> /\ entry = <<>>

Init == MInit /\ EInit /\ HInit /\ SInit /\ DInit /\ VInit /\ PInit /\ LInit /\ WInit /\ OInit

Next == MNext /\ UNCHANGED <<evars, hvars, svars, dvars, vvars, pvars, lvars, wvars, ovars>>

Spec == Init /\ [][Next]_vars

NextEdit == ENext /\ UNCHANGED <<mvars, hvars, svars, dvars, vvars, pvars, lvars, wvars, ovars>>

SpecEdit == Init /\ [][NextEdit]_vars

NextHandler == HNext /\ UNCHANGED <<mvars, evars, svars, dvars, vvars, pvars, lvars, wvars, ovars>>

SpecHandler == Init /\ [][NextHandler]_vars

NextScript == SNext /\ UNCHANGED <<mvars, evars, hvars, dvars, vvars, pvars, lvars, wvars, ovars>>

SpecScript == Init /\ [][NextScript]_vars

NextDecode == DNext /\ UNCHANGED <<mvars, evars, hvars, svars, vvars, pvars, lvars, wvars, ovars>>

SpecDecode == Init /\ [][NextDecode]_vars

NextVariable == VNext /\ UNCHANGED <<mvars, evars, hvars, svars, dvars, pvars, lvars, wvars, ovars>>

SpecVariable == Init /\ [][NextVariable]_vars

NextParse == PNext /\ UNCHANGED <<mvars, evars, hvars, svars, dvars, vvars, lvars, wvars, ovars>>

SpecParse == Init /\ [][NextParse]_vars

NextSummary ==
  SummaryNext /\ UNCHANGED <<mvars, evars, hvars, svars, dvars, vvars, pvars, wvars, ovars>>

SpecSummary == Init /\ [][NextSummary]_vars

NextRecent ==
  RecentNext /\ UNCHANGED <<mvars, evars, hvars, svars, dvars, vvars, pvars, wvars, ovars>>

SpecRecent == Init /\ [][NextRecent]_vars

NextWrap ==
  WNext /\ UNCHANGED <<mvars, evars, hvars, svars, dvars, vvars, pvars, lvars, ovars>>

SpecWrap == Init /\ [][NextWrap]_vars

NextOps ==
  ONext /\ UNCHANGED <<mvars, evars, hvars, svars, dvars, vvars, pvars, lvars, wvars>>

SpecOps == Init /\ [][NextOps]_vars

NextOutput ==
  OutputNext /\ UNCHANGED <<mvars, evars, hvars, svars, vvars, pvars, lvars, wvars, ovars>>

SpecOutput == Init /\ [][NextOutput]_vars

NextLog == LogNext /\ UNCHANGED <<mvars, evars, hvars, svars, dvars, vvars, pvars, wvars, ovars>>

SpecLog == Init /\ [][NextLog]_vars

(***************************************************************************)
(* Claims about the payload-staging calls (checked under Spec)             *)
(***************************************************************************)
Finished(c) == calls[c].pc = "done"
Running(c) == calls[c].staged /\ calls[c].pc # "done"

NotAppliedFailure == Failure(<<"Failed to add action: ", NotCreatedMsg>>)
ExecutionFailure == Failure(<<"Failed to add action: ">> \o AppleScriptError)

\* The step in which addAction call c leaves the given position and returns.
AddActionReturnsFrom(c, pc) ==
  /\ calls[c].op = "addAction"
  /\ calls[c].pc = pc
  /\ calls'[c].pc = "done"

\* C1: addAction - when the add script ran without an execution error and the
\* action count read after it is not strictly greater than the count read
\* before it, the call fails with the 'Action was not created ...' error and
\* never with a success text; a call whose script execution failed fails with
\* a different error text.  (The after-count is the engine's count in the
\* step that compares it; the only other outcome of that step is the failure
\* of the count query itself.)
C1_NotAppliedIsAnError ==
  [][\A c \in CallIds :
       /\ (AddActionReturnsFrom(c, "count2")
             /\ actions <= calls[c].beforeCount
             /\ calls'[c].result # ExecutionFailure)
            => calls'[c].result = NotAppliedFailure
       /\ AddActionReturnsFrom(c, "script")
            => (calls'[c].result = ExecutionFailure
                  /\ ExecutionFailure # NotAppliedFailure)]_vars

\* An addAction call that has failed with the 'not created' error.
C1_Witness ==
  \E c \in CallIds :
    /\ calls[c].op = "addAction" /\ Finished(c)
    /\ calls[c].result = NotAppliedFailure

C3_ConcurrentCallsUseDistinctPaths ==
  \A a, b \in CallIds :
    (a # b /\ Running(a) /\ Running(b)) => calls[a].tempPath # calls[b].tempPath

\* The step in which call c, running op at position pc, returns a success text.
SucceedsFrom(c, op, pc) ==
  /\ calls[c].op = op
  /\ calls[c].pc = pc
  /\ calls'[c].pc = "done"
  /\ calls'[c].result.kind = "text"

\* C13: an operation that creates an entity from caller-supplied markup
\* reports success only if the macro's count of that entity kind is strictly
\* greater after its script ran than before: addAction against the count it
\* recorded, addTrigger against the trigger count its script found.
C13_SuccessOnlyIfCountGrew ==
  [][\A c \in CallIds :
       /\ SucceedsFrom(c, "addAction", "count2") => actions > calls[c].beforeCount
       /\ SucceedsFrom(c, "addTrigger", "script") => triggers' > triggers]_vars

\* C17: addAction reads the before-count before it stages the payload, and
\* releases the staged payload before the after-count query starts.
C17_AddActionStepOrder ==
  \A c \in CallIds :
    calls[c].op = "addAction" =>
      /\ calls[c].pc = "count1" => ~calls[c].staged
      /\ calls[c].pc = "count2" => calls[c].releases = 1

\* C18: an addAction call whose own markup the engine silently dropped never
\* returns a success text, whatever other calls and the editor do to the same
\* macro between its two count reads.
C18_NoOpIsNeverReportedAsSuccess ==
  [][\A c \in CallIds :
       SucceedsFrom(c, "addAction", "count2") => calls[c].made]_vars

(***************************************************************************)
(* Claims about the action index space (checked under SpecEdit)            *)
(***************************************************************************)
IsMove == lastOp.op = "moveAction"

\* C9: moveAction with newIndex greater than the macro's action count (and an
\* existing actionIndex) succeeds and leaves the addressed action last, the
\* other actions keeping their order.
C9_MovePastEndMovesToEnd ==
  (IsMove /\ lastOp.i \in 1..Len(lastOp.pre) /\ lastOp.j > Len(lastOp.pre)) =>
     /\ lastOp.result.kind = "text"
     /\ Len(lastOp.post) = Len(lastOp.pre)
     /\ lastOp.post[Len(lastOp.post)] = lastOp.pre[lastOp.i]
     /\ Remove(lastOp.post, Len(lastOp.post)) = Remove(lastOp.pre, lastOp.i)

\* Action 1 of a 4-action macro moved to index 5.
C9_Witness ==
  /\ IsMove /\ Len(lastOp.pre) = 4 /\ lastOp.i = 1 /\ lastOp.j = 5
  /\ lastOp.post[4] = lastOp.pre[1]

\* C10: moveAction(macro, actionIndex, newIndex) with both indexes within
\* 1..count leaves the moved action at 1-based position newIndex, the other
\* actions keeping their relative order.
C10_MovedActionEndsAtNewIndex ==
  (IsMove /\ lastOp.i \in 1..Len(lastOp.pre) /\ lastOp.j \in 1..Len(lastOp.pre)) =>
     /\ lastOp.result.kind = "text"
     /\ lastOp.post[lastOp.j] = lastOp.pre[lastOp.i]
     /\ Remove(lastOp.post, lastOp.j) = Remove(lastOp.pre, lastOp.i)

(***************************************************************************)
(* Claims about the request handler (checked under SpecHandler)            *)
(***************************************************************************)
Handled == request.name # "none"

\* C5: for every tool of the catalog and every parameter its schema declares
\* as required, a call that omits that parameter gets an error response and no
\* osascript process is started for it.
C5_MissingRequiredFailsFast ==
  (Handled /\ request.name \in Tools) =>
     \A p \in ToolRequired[request.name] :
        request.args[p] = "absent" =>
           (response.kind = "error" /\ ~response.osascript)

\* The same statement for every tool but km_move_action.
C5_OtherToolsFailFast ==
  (Handled /\ request.name \in Tools \ {"km_move_action"}) =>
     \A p \in ToolRequired[request.name] :
        request.args[p] = "absent" =>
           (response.kind = "error" /\ ~response.osascript)

\* C6: every tool call gets a response that is a text payload or a text error
\* payload flagged isError, whatever was thrown inside the handler; a name
\* outside the catalog gets the error payload 'Unknown tool'.
C6_AlwaysATextOrErrorPayload ==
  Handled =>
     /\ response.kind \in {"text", "error"}
     /\ response.isError <=> response.kind = "error"
     /\ request.name \notin Tools =>
          response = [kind |-> "error", isError |-> TRUE,
                      text |-> <<"Error: ", "Unknown tool: ", request.name>>,
                      osascript |-> FALSE]

\* An operation that started its osascript and threw.
C6_Witness ==
  /\ Handled /\ request.name = "km_add_action"
  /\ response.kind = "error" /\ response.osascript
  /\ response.text = <<"Error: ", "<error of ", "km_add_action", ">">>

(***************************************************************************)
(* Claims about the script builder (checked under SpecScript)              *)
(***************************************************************************)
Built == site.op # "none"

LiteralIsIntact ==
  LET lit == ScanLiteral(script, 2, <<>>) IN
  /\ lit.valid
  /\ lit.closedAt = IntendedEnd(site.escape, userStr)
  /\ lit.value = userStr

\* C4: for every operation and every string parameter value, quotes and
\* backslashes included, the literal the parameter is interpolated into ends
\* exactly at the builder's closing quote and reads back as the parameter.
C4_InterpolatedStringsAreEscaped == Built => LiteralIsIntact

\* The same statement for the two parameters that get both replacements.
C4_FullyEscapedSitesAreIntact == (Built /\ site.escape = "both") => LiteralIsIntact

IsListing == lastOp.op = "listActions"

\* C14: after any sequence of addAction, deleteAction and moveAction calls,
\* listActions returns exactly one entry per action of the macro, and the
\* index fields of the entries are 1, 2, ..., n in order.
C14_ListedIndicesAreOneToN ==
  IsListing =>
    /\ Len(lastOp.listing) = Len(lastOp.pre)
    /\ \A k \in 1..Len(lastOp.listing) : lastOp.listing[k].index = k

\* The same statement for macros none of whose action names holds ";;;".
C14_PlainNamedActionsAreNumbered ==
  (IsListing /\ \A k \in 1..Len(lastOp.pre) : lastOp.pre[k] # SeparatorNamed) =>
    /\ Len(lastOp.listing) = Len(lastOp.pre)
    /\ \A k \in 1..Len(lastOp.listing) : lastOp.listing[k].index = k

(***************************************************************************)
(* Claims about the list decoders (checked under SpecDecode)               *)
(***************************************************************************)
Listed == decoder # "none"

TokenFree(str) == ~Contains(str, FieldSep) /\ ~Contains(str, RecordSep)

\* The records the engine enumerated, as the operation should return them.
Originals(d, list) ==
  IF d = "listActions"
    THEN [k \in 1..Len(list) |->
            [index |-> k, name |-> list[k].name, enabled |-> list[k].enabled]]
    ELSE [k \in 1..Len(list) |-> [name |-> list[k].name, uid |-> UidAt(k)]]

\* C7: listMacros, searchMacros, listGroups, listActions - records whose fields
\* are free of ';;;' and '|||', joined with '|||' and ';;;' and then decoded,
\* come back unchanged and in order; the empty output decodes to no record.
C7_DecodeInvertsEncode ==
  (Listed /\ \A k \in 1..Len(records) : TokenFree(records[k].name)) =>
     decoded = Originals(decoder, records)

\* C8: every list decoder returns only trimmed fields and no record whose name
\* is empty after trimming.
C8_FieldsTrimmedEmptyNamesDropped ==
  Listed =>
     \A k \in 1..Len(decoded) :
        /\ decoded[k].name # Undefined
        /\ decoded[k].name = Trim(decoded[k].name)
        /\ decoded[k].name # <<>>

\* The same statement for listGroups alone.
C8_ListGroupsTrimsAndFilters ==
  (Listed /\ decoder = "listGroups") =>
     \A k \in 1..Len(decoded) :
        /\ decoded[k].name = Trim(decoded[k].name)
        /\ decoded[k].name # <<>>

\* The round trip for names without blanks and delimiter characters.
C7_PlainNamesRoundTrip ==
  (Listed /\ \A k \in 1..Len(records) :
              records[k].name # <<>> /\ \A i \in 1..Len(records[k].name) : records[k].name[i] = "a") =>
     decoded = Originals(decoder, records)

\* C19: listMacros, searchMacros, listGroups, listActions - when the script's
\* output is empty or only whitespace (the engine enumerated nothing), the
\* operation returns the empty sequence: no error, no one-element list.
C19_BlankOutputIsZeroRecords ==
  (Listed /\ \A k \in 1..Len(raw) : raw[k] \in Whitespace) => decoded = <<>>

\* A list operation has run on an engine with nothing to enumerate.
C19_Witness ==
  /\ Listed
  /\ records = <<>>
  /\ raw = <<Newline>>
  /\ decoded = <<>>

(***************************************************************************)
(* Claims about variables (checked under SpecVariable)                     *)
(***************************************************************************)
\* C15: setVariable(name, value) followed by getVariable(name), with no write
\* to the variable in between, returns exactly value; after a deleteVariable
\* that succeeded the variable is gone.
C15_VariableRoundTrip ==
  /\ (varOp.op = "getVariable" /\ varOp.ok /\ varOp.written # Undefined)
        => varOp.returned = varOp.written
  /\ (varOp.op = "deleteVariable" /\ varOp.ok) => kmVariable = <<>>

\* The round trip for values without blanks and backslashes.
C15_PlainValuesRoundTrip ==
  (varOp.op = "getVariable" /\ varOp.ok /\ varOp.written # Undefined
     /\ \A k \in 1..Len(varOp.written) : varOp.written[k] \in {"a", Quote})
    => varOp.returned = varOp.written

(***************************************************************************)
(* Claims about parseLogLine (checked under SpecParse)                     *)
(***************************************************************************)
\* The line is a date, blanks up to position a, a time, blanks up to position
\* b and at least one more character.
WellFormedAt(line, a, b) ==
  /\ a >= 11 /\ b >= a + 9 /\ b < Len(line)
  /\ IsDatePart(SubSeq(line, 1, 10))
  /\ \A k \in 11..a : line[k] \in Whitespace
  /\ IsTimePart(SubSeq(line, a + 1, a + 8))
  /\ \A k \in (a + 9)..b : line[k] \in Whitespace

WellFormed(line) ==
  \E a \in 1..Len(line), b \in 1..Len(line) : WellFormedAt(line, a, b)

\* The text holds the word at position k, letter case aside.
HoldsAt(text, word, k) ==
  /\ k + Len(word) - 1 <= Len(text)
  /\ \A i \in 1..Len(word) : LowerChar(text[k + i - 1]) = word[i]

HoldsKeyword(text) ==
  \E word \in ErrorKeywords, k \in 1..Len(text) : HoldsAt(text, word, k)

\* C20: parseLogLine returns no entry for a line that does not begin with a
\* YYYY-MM-DD HH:MM:SS timestamp followed by whitespace and a non-empty
\* message; for a line that does, it returns an entry whose isError is true
\* exactly when the message holds failed, error, cancelled or timeout in any
\* letter case.
C20_TimestampedLinesOnlyKeywordsAreErrors ==
  /\ ~WellFormed(logLine) => entry = <<>>
  /\ WellFormed(logLine) =>
       /\ Len(entry) = 1
       /\ entry[1].isError <=> HoldsKeyword(entry[1].message)

\* A line with an upper-case keyword has been parsed into an error entry.
C20_Witness ==
  /\ Len(entry) = 1
  /\ entry[1].isError
  /\ ~isError_caseSensitive(entry[1].message)

\* Text `<prefix>"<name>"` with a non-empty name of n characters, none of
\* them a quote, stands at position k of the message.
NamedAt(message, prefix, k, n) ==
  LET open == k + Len(prefix) IN
  /\ n >= 1
  /\ open + n + 1 <= Len(message)
  /\ SubSeq(message, k, open - 1) = prefix
  /\ message[open] = Quote
  /\ \A i \in 1..n : message[open + i] # Quote
  /\ message[open + n + 1] = Quote

Named(message, prefix) ==
  \E k \in 1..Len(message), n \in 1..Len(message) : NamedAt(message, prefix, k, n)

\* The entry's macroName is the name of the leftmost `<prefix>"<name>"`.
NamesLeftmost(e, prefix) ==
  \E k \in 1..Len(e.message), n \in 1..Len(e.message) :
    /\ NamedAt(e.message, prefix, k, n)
    /\ \A j \in 1..(k - 1), m \in 1..Len(e.message) : ~NamedAt(e.message, prefix, j, m)
    /\ e.macroName = SubSeq(e.message, k + Len(prefix) + 1, k + Len(prefix) + n)

ExampleLine ==
  <<"2", "0", "2", "5", "-", "0", "1", "-", "0", "1", Space, "1", "0", ":", "0",
   "0", ":", "0", "0", Space, "E", "x", "e", "c", "u", "t", "e", Space, "m",
   "a", "c", "r", "o", Space, Quote, "D", "a", "i", "l", "y", Space, "B", "a",
   "c", "k", "u", "p", Quote, Space, "f", "a", "i", "l", "e", "d">>

DailyBackup == <<"D", "a", "i", "l", "y", Space, "B", "a", "c", "k", "u", "p">>

\* C12: parseLogLine takes the macro name from Macro "<name>" when the message
\* holds one, otherwise from Execute macro "<name>" when it holds one,
\* otherwise the entry has no macro name; the line
\* 2025-01-01 10:00:00 Execute macro "Daily Backup" failed
\* gives isError = true and macroName = Daily Backup.
C12_MacroPatternBeforeExecutePattern ==
  /\ \A k \in 1..Len(entry) :
       LET e == entry[k] IN
       IF Named(e.message, MacroPrefix) THEN NamesLeftmost(e, MacroPrefix)
       ELSE IF Named(e.message, ExecuteMacroPrefix)
         THEN NamesLeftmost(e, ExecuteMacroPrefix)
       ELSE e.macroName = Undefined
  /\ logLine = ExampleLine =>
       (Len(entry) = 1 /\ entry[1].isError /\ entry[1].macroName = DailyBackup)

\* The example line has been parsed.
C12_Witness ==
  /\ logLine = ExampleLine
  /\ Len(entry) = 1
  /\ entry[1].macroName = DailyBackup

(***************************************************************************)
(* Claims about the error summary (checked under SpecSummary)              *)
(***************************************************************************)
Summarised == logOp.op = "km_get_errors" /\ logOp.ok

SummaryHours == OrElse(logOp.arg, DefaultHours)

\* How many times the engine wrote the given line.
Written(line) ==
  LET lines == Split(engineLog, <<Newline>>)
  IN Cardinality({k \in 1..Len(lines) : lines[k] = line})

\* The error lines written that lie inside the window: ErrorOfA is one hour
\* old, ErrorOfB twenty-two hours, OldErrorOfA thirty-four.
ErrorsOfAInside == Written(ErrorOfA)
ErrorsOfBInside == IF SummaryHours >= 22 THEN Written(ErrorOfB) ELSE 0

MacroA == <<"A">>

CountFor(key) ==
  IF key \in DOMAIN logOp.summary.errorsByMacro
    THEN logOp.summary.errorsByMacro[key].count ELSE 0

ExampleLog ==
  /\ Summarised
  /\ SummaryHours = DefaultHours
  /\ Written(ErrorOfA) = 3
  /\ Written(ErrorOfB) = 1
  /\ Written(OldErrorOfA) = 1

\* C11 as stated: with 3 error lines for "A" and 1 for "B" inside the window
\* and 1 error line for "A" outside it, totalErrors = 3 and
\* errorsByMacro["A"].count = 2.
C11_ExampleTotalsThreeAndTwo ==
  ExampleLog => /\ logOp.summary.totalErrors = 3
                /\ CountFor(MacroA) = 2

\* C11, amended: getErrorSummary counts only the error entries inside the
\* lookback window, so with 3 error lines for "A" and 1 for "B" inside the
\* window and 1 error line for "A" outside it, totalErrors = 4 and
\* errorsByMacro["A"].count = 3.
C11_SummaryCountsErrorsInsideWindow ==
  Summarised =>
    /\ logOp.summary.totalErrors = ErrorsOfAInside + ErrorsOfBInside
    /\ CountFor(MacroA) = ErrorsOfAInside
    /\ ExampleLog => /\ logOp.summary.totalErrors = 4
                     /\ CountFor(MacroA) = 3

C11_Witness ==
  /\ ExampleLog
  /\ logOp.summary.totalErrors = 4
  /\ CountFor(MacroA) = 3

(***************************************************************************)
(* Claims about the log readers (checked under SpecLog)                    *)
(***************************************************************************)
ReadTheLog ==
  /\ logOp.op \in {"readEngineLog", "readEditorLog", "km_get_log"}
  /\ logOp.ok

\* The file the last read was of.
FileRead == IF logOp.op = "readEditorLog" THEN editorLog ELSE engineLog

\* The non-blank lines of a file, in file order.
NonBlank(file) ==
  SelectSeq(Split(file, <<Newline>>),
            LAMBDA l : \E k \in 1..Len(l) : l[k] \notin Whitespace)

\* The last n elements of a sequence; none for n = 0.
LastN(seq, n) ==
  SubSeq(seq, (IF Len(seq) > n THEN Len(seq) - n + 1 ELSE 1), Len(seq))

\* a can be had from b by removing elements.
RECURSIVE IsSubSeq(_, _)
IsSubSeq(a, b) ==
  IF a = <<>> THEN TRUE
  ELSE IF b = <<>> THEN FALSE
  ELSE IF Head(a) = Head(b) THEN IsSubSeq(Tail(a), Tail(b))
  ELSE IsSubSeq(a, Tail(b))

EntriesOfTail(n) ==
  LET tail == LastN(NonBlank(FileRead), n)
  IN Flatten([k \in 1..Len(tail) |-> parseLogLine(tail[k])])

\* C16: a read with line count N >= 0 returns at most N entries, each parsed
\* from one of the last N non-blank lines of the file, in log order; the
\* filters only remove entries of that tail.
C16_ReadsReturnAtMostNFromTheTail ==
  (ReadTheLog /\ logOp.arg # <<>>) =>
    /\ Len(logOp.entries) <= logOp.arg[1]
    /\ IsSubSeq(logOp.entries, EntriesOfTail(logOp.arg[1]))

\* For N >= 1 the reads do return at most N entries of the tail.
C16_PositiveCountsReadTheTail ==
  (ReadTheLog /\ logOp.arg # <<>> /\ logOp.arg[1] >= 1) =>
    /\ Len(logOp.entries) <= logOp.arg[1]
    /\ IsSubSeq(logOp.entries, EntriesOfTail(logOp.arg[1]))

(***************************************************************************)
(* Claims about the grouping of the error summary (checked under           *)
(* SpecRecent)                                                             *)
(***************************************************************************)
\* The lines of the engine log that are errors inside the window, in log
\* order, told by which line of the engine each is: ErrorOfB is twenty-two
\* hours old, the others at most one hour.
ErrorLinesInside ==
  SelectSeq(Split(engineLog, <<Newline>>),
            LAMBDA l : \/ l \in {ErrorOfA, LaterErrorOfA, UnnamedError}
                       \/ l = ErrorOfB /\ SummaryHours >= 22)

MacroB == <<"B">>
UnknownKey == <<"U", "n", "k", "n", "o", "w", "n">>

NamedIn(l) ==
  IF l \in {ErrorOfA, LaterErrorOfA} THEN MacroA
  ELSE IF l = ErrorOfB THEN MacroB ELSE UnknownKey

TimestampIn(l) == SubSeq(l, 1, 19)
MessageIn(l) == SubSeq(l, 21, Len(l))

RECURSIVE SumOfCounts(_, _)
SumOfCounts(groups, keys) ==
  IF keys = {} THEN 0
  ELSE LET key == CHOOSE k \in keys : TRUE
       IN groups[key].count + SumOfCounts(groups, keys \ {key})

LooksComplete(text) ==
  \/ Len(text) >= 5 /\ SubSeq(text, 1, 5) = XmlDeclaration
  \/ Len(text) >= 9 /\ SubSeq(text, 1, 9) = DoctypeToken
  \/ Len(text) >= 6 /\ SubSeq(text, 1, 6) = PlistToken

\* C25: a payload whose trimmed text starts with '<?xml', '<!DOCTYPE' or
\* '<plist' is written trimmed and unwrapped; any other payload is written
\* inside one envelope; wrapping what was written changes nothing.
C25_WrapOnceAndIdempotent ==
  /\ written # NotWritten =>
       IF LooksComplete(Trim(xmlIn)) THEN written = Trim(xmlIn)
       ELSE written = EnvelopeHead \o Trim(xmlIn) \o EnvelopeTail
  /\ rewritten # NotWritten => rewritten = written

C25_Witness ==
  /\ rewritten # NotWritten
  /\ ~LooksComplete(Trim(xmlIn))
  /\ Trim(xmlIn) # xmlIn
  /\ Len(written) > Len(EnvelopeHead) + Len(EnvelopeTail)

C25_PassedThroughWitness ==
  /\ rewritten # NotWritten
  /\ LooksComplete(Trim(xmlIn))
  /\ Trim(xmlIn) # xmlIn

(***************************************************************************)
(* Claims about whole operations (checked under SpecOps)                   *)
(***************************************************************************)
OpIs(op) == opDone.op = op

\* A script of the operation failed: the one at failAt, which was run.
ScriptFailed == opDone.failAt \in 1..Len(opDone.ran)

PrefixedOps == StagingOps \cup {"getMacro", "createMacro"}

\* The prefix names the operation: it is the operation's own prefix and, for
\* an operation the code has no prefix for, at least not another one's.
NamesOperation(prefix, op) ==
  IF op \in PrefixedOps THEN prefix = FailedPrefix(op)
  ELSE \A other \in PrefixedOps : prefix # FailedPrefix(other)

EndsWith(seq, tail) ==
  Len(seq) >= Len(tail) /\ SubSeq(seq, Len(seq) - Len(tail) + 1, Len(seq)) = tail

\* C22: when a script run by an operation fails, the error returned carries
\* the diagnostic verbatim, prefixed with the operation the caller attempted
\* (createMacro with actionXml and addExecuteMacroAction included), and the
\* failed script is not run again.
C22_ErrorsNameTheAttemptedOperation ==
  (~OpIs("none") /\ ScriptFailed) =>
    /\ opDone.result.kind = "error"
    /\ NamesOperation(opDone.result.msg[1], opDone.op)
    /\ EndsWith(opDone.result.msg, AppleScriptError)
    /\ Len(opDone.ran) = opDone.failAt

\* The operations that have a try block of their own do re-wrap that way.
C22_OperationsWithATryBlockRewrap ==
  (~OpIs("none") /\ ~OpIs("addExecuteMacroAction") /\ ScriptFailed) =>
    /\ opDone.result.kind = "error"
    /\ NamesOperation(opDone.result.msg[1], opDone.op)
    /\ EndsWith(opDone.result.msg, AppleScriptError)
    /\ Len(opDone.ran) = opDone.failAt

\* The macro of the engine an identifier addressed before the operation.
Addressed == opDone.before[FindMacro(opDone.before, opDone.arg)]

Succeeded == opDone.result.kind = "text"

LastActionOfTarget ==
  LET acts == kmMacros[FindMacro(kmMacros, TargetMacro)].actions
  IN acts[Len(acts)]

\* C24: for a macro whose name holds none of the delimiter tokens (it may
\* hold any single punctuation character, '|' included), getMacro returns its
\* exact name, uid and enabled flag, and addExecuteMacroAction embeds its
\* exact uid in the action it adds.
C24_GetMacroReturnsTheMacro ==
  /\ (OpIs("getMacro") /\ Succeeded) =>
       /\ opDone.json.name = Addressed.name
       /\ opDone.json.uid = Addressed.uid
       /\ opDone.json.enabled = Addressed.enabled
  /\ (OpIs("addExecuteMacroAction") /\ Succeeded) =>
       /\ LastActionOfTarget.type = "ExecuteMacro"
       /\ LastActionOfTarget.uid = Addressed.uid

HasBar(name) == \E k \in 1..Len(name) : name[k] = FieldBar

\* For names without '|' both hold.
C24_NamesWithoutBarAreReturned ==
  /\ (OpIs("getMacro") /\ Succeeded /\ ~HasBar(Addressed.name)) =>
       /\ opDone.json.name = Addressed.name
       /\ opDone.json.uid = Addressed.uid
       /\ opDone.json.enabled = Addressed.enabled
  /\ (OpIs("addExecuteMacroAction") /\ Succeeded /\ ~HasBar(Addressed.name)) =>
       /\ LastActionOfTarget.type = "ExecuteMacro"
       /\ LastActionOfTarget.uid = Addressed.uid

\* What a staging operation returns when the release goes well.
OutcomeWithRelease ==
  IF OpIs("addAction")
    THEN addAction(opDone.before, opDone.arg,
                   [valid |-> opDone.valid, content |-> PlainAction],
                   opDone.failAt, 1, TRUE).result
    ELSE stagingCall(opDone.op, opDone.before, opDone.arg, opDone.failAt, TRUE).result

\* C26: for addAction, addTrigger, setActionXml and setTriggerXml the result
\* is the same whether the release of the staged file succeeds or fails, and
\* the deletion failure is never surfaced.
C26_ReleaseFailureIsNotSurfaced ==
  opDone.op \in StagingOps =>
    /\ opDone.result = OutcomeWithRelease
    /\ \A k \in 1..Len(opDone.result.msg) : opDone.result.msg[k] # UnlinkError

C26_Witness ==
  /\ opDone.op \in StagingOps
  /\ ~opDone.unlinkOk
  /\ tempLeft
  /\ Succeeded

C26_FailedCallWitness ==
  /\ OpIs("setTriggerXml")
  /\ ~opDone.unlinkOk
  /\ tempLeft
  /\ opDone.result.kind = "error"

BeforeCountFailed ==
  opDone.failAt = 1 \/ FindMacro(opDone.before, opDone.arg) = 0

CreatedThenAdded == OpIs("createMacro") /\ Len(opDone.ran) > 1

\* C28: when actionXml is supplied and the add-action step fails (execution
\* error or 'not applied'), createMacro returns an error although the new
\* macro has been created and is left in place: no rollback, no deletion.
C28_CreateMacroIsNotAtomic ==
  (CreatedThenAdded /\ (opDone.failAt \in 2..4 \/ ~opDone.valid)) =>
    /\ opDone.result.kind = "error"
    /\ opDone.result.msg[1] = "Failed to create macro: "
    /\ Len(kmMacros) = Len(opDone.before) + 1
    /\ SubSeq(kmMacros, 1, Len(opDone.before)) = opDone.before
    /\ kmMacros[Len(kmMacros)].name = opDone.arg
    /\ \A k \in 1..Len(opDone.ran) : opDone.ran[k] # "delete"

C28_Witness ==
  /\ CreatedThenAdded
  /\ opDone.failAt = 0
  /\ ~opDone.valid
  /\ opDone.result.kind = "error"
  /\ Len(kmMacros) = Len(opDone.before) + 1

C28_ExecutionErrorWitness ==
  /\ CreatedThenAdded
  /\ opDone.failAt = 3
  /\ opDone.result.kind = "error"
  /\ Len(kmMacros) = Len(opDone.before) + 1

(***************************************************************************)
(* Claims about output outside the encoding (checked under SpecOutput)     *)
(***************************************************************************)
Printed == runAppleScriptFile(raw)

AllDigits(field) ==
  field # <<>> /\ \A k \in 1..Len(field) : IsDigit(field[k])

\* One record of the encoding: name|||uid, or index|||name|||enabled with a
\* numeric index and a boolean text for a listed action.
RecordFollowsEncoding(d, item) ==
  LET fields == Split(item, FieldSep)
  IN IF d = "listActions"
       THEN /\ Len(fields) = 3
            /\ AllDigits(fields[1])
            /\ fields[3] \in {TrueText, FalseText}
       ELSE Len(fields) = 2

FollowsEncoding(d, text) ==
  \/ Trim(text) = <<>>
  \/ LET items == Split(text, RecordSep)
     IN \A k \in 1..Len(items) : RecordFollowsEncoding(d, items[k])

\* C23: for the list queries, output that does not follow the record/field
\* encoding yields an empty result, not an error and not a record with
\* missing or invalid fields.
C23_MalformedOutputIsEmptyResult ==
  (decoder \in Decoders /\ ~FollowsEncoding(decoder, Printed)) => decoded = <<>>

\* Every record returned for output that follows the encoding has its
\* fields.
C23_EncodedOutputHasItsFields ==
  (decoder \in Decoders /\ FollowsEncoding(decoder, Printed)) =>
    \A k \in 1..Len(decoded) :
      IF decoder = "listActions"
        THEN decoded[k].index # NaN /\ decoded[k].name # Undefined
        ELSE decoded[k].name # Undefined /\ decoded[k].uid # Undefined

\* C30: setVariable with the value %Delete% sends the script deleteVariable
\* sends, and after a setVariable of %Delete% that succeeded the variable is
\* absent: it never holds the text %Delete%.
C30_SetDeleteTokenIsDelete ==
  /\ setVariableLiteral(DeleteToken) = deleteVariableLiteral
  /\ setVariableScript(DeleteToken) = deleteVariableScript
  /\ (varOp.op = "setVariable" /\ varOp.ok /\ varOp.written = DeleteToken)
        => kmVariable = <<>>
  /\ varOp.op \in {"setVariable", "deleteVariable", "getVariable"}
        => kmVariable # DeleteToken

C30_Witness ==
  /\ varOp.op = "setVariable" /\ varOp.ok /\ varOp.written = DeleteToken
  /\ kmVariable = <<>>

====
